---- MODULE Spec2Model ----
(***************************************************************************)
(* Verification model of the RepoGist analysis pipeline.                   *)
(*                                                                         *)
(*   SpecRateLimit : the fixed-window rate limiter (rate-limit.ts)         *)
(*   SpecScores    : the scoring engine (code-analyzer.ts calculateScores) *)
(*   SpecCodec     : the diagram codec's text functions (lib/mermaid)      *)
(*   SpecDiagram   : the diagram generators and processDiagrams            *)
(*   SpecPost      : the analysis request handler (route.ts POST)          *)
(*   SpecHook      : the consumer (use-analysis.ts) and the result cache   *)
(*                                                                         *)
(* Strings the code inspects character by character are sequences of       *)
(* one-character strings.                                                  *)
(***************************************************************************)
EXTENDS Integers, Sequences, FiniteSets, TLC

VARIABLES
    \* ---- rate-limit.ts ----
    rateLimitMap,      \* Map<string, RateLimitRecord>: a function on the stored keys
    cleanupInterval,   \* TRUE once setInterval(cleanupExpiredRecords) is installed
    now,               \* Date.now()
    calls,             \* observed checkRateLimit calls, in order
    \* ---- code-analyzer.ts ----
    metrics,           \* the CodeMetrics value handed to calculateScores
    scores,            \* <<what calculateScores returned>>, <<>> before the call
    \* ---- lib/mermaid ----
    fn,                \* which text function is under call
    input,             \* its argument
    out1,              \* the result of the call
    out2,              \* the result of calling it again on out1
    \* ---- route.ts (POST) ----
    configured,        \* isConfigured()
    request,           \* <<the request POST is handling>>, <<>> before the first
    pc,                \* the await POST is suspended at, "idle" when it has returned
    steps,             \* the calls POST has made for the request, in order
    response,          \* <<the Response returned>>, <<>> while POST is running
    mapBefore,         \* rateLimitMap as it was when the request arrived
    deterministic,     \* <<metadata, tree, metrics, scores>> once computed
    fetches,           \* <<the branches the three fetches were called with>>, once issued
    \* ---- use-analysis.ts ----
    cache,             \* analysisStorage: a function on the stored keys
    analyzing,         \* <<the locals of the analyze call in progress>>, <<>> if none
    status,            \* status.stage of the analysis context
    result,            \* result of the analysis context
    isCached,          \* isCached of the hook
    history,           \* the analyze calls that have returned, in order
    other,             \* <<the locals of a second analyze call in progress>>, <<>> if none
    \* ---- recent-analyses.tsx ----
    listeners,         \* the listeners subscribed to the recent-analyses store
    cachedHistory,     \* <<the memoised snapshot>>, <<>> for null
    notified,          \* the listeners the latest cache operation called
    lastOp             \* the latest cache operation, "" when something else came after it

vars == <<rateLimitMap, cleanupInterval, now, calls, metrics, scores, fn, input, out1, out2,
          configured, request, pc, steps, response, mapBefore, deterministic, fetches,
          cache, analyzing, status, result, isCached, history, other,
          listeners, cachedHistory, notified, lastOp>>

rlVars    == <<rateLimitMap, cleanupInterval, now, calls>>
scoreVars == <<metrics, scores>>
codecVars == <<fn, input, out1, out2>>
postVars  == <<configured, request, pc, steps, response, mapBefore, deterministic, fetches>>
hookVars  == <<cache, analyzing, status, result, isCached, history>>
viewVars  == <<other, listeners, cachedHistory, notified, lastOp>>

(***************************************************************************)
(* Rate limiter                                                            *)
(***************************************************************************)

\* RATE_LIMIT.MAX_REQUESTS and RATE_LIMIT.WINDOW_MS (./config): fixed constants.
MAX_REQUESTS == 2
WINDOW_MS == 2

\* Client identifiers returned by getClientIP, "unknown" being its fallback.
Clients == {"203.0.113.7", "unknown"}

MaxTime == 4
MaxCalls == 5

\* new Map()
EmptyMap == [x \in {} |-> [count |-> 0, resetTime |-> 0]]

\* Map.prototype.set
MapSet(map, k, v) == [x \in (DOMAIN map) \cup {k} |-> IF x = k THEN v ELSE map[x]]

\* Map.prototype.delete for every key of ks
MapDeleteAll(map, ks) == [x \in (DOMAIN map) \ ks |-> map[x]]

\* ensureCleanupRunning(): installs the timer once.
ensureCleanupRunning(interval) == IF ~interval THEN TRUE ELSE interval

\* A plausible slip: the count is incremented before the limit is tested.
checkRateLimit_countsRejected(map, ip, t) ==
    IF ip \notin DOMAIN map \/ t > map[ip].resetTime
    THEN [map    |-> MapSet(map, ip, [count |-> 1, resetTime |-> t + WINDOW_MS]),
          result |-> [allowed |-> TRUE, remaining |-> MAX_REQUESTS - 1]]
    ELSE LET bumped == MapSet(map, ip, [count     |-> map[ip].count + 1,
                                        resetTime |-> map[ip].resetTime])
         IN  IF map[ip].count >= MAX_REQUESTS
             THEN [map |-> bumped, result |-> [allowed |-> FALSE, remaining |-> 0]]
             ELSE [map    |-> bumped,
                   result |-> [allowed |-> TRUE,
                               remaining |-> MAX_REQUESTS - (map[ip].count + 1)]]

\* A plausible slip: the limit is tested with > instead of >=.
checkRateLimit_offByOne(map, ip, t) ==
    IF ip \notin DOMAIN map \/ t > map[ip].resetTime
    THEN [map    |-> MapSet(map, ip, [count |-> 1, resetTime |-> t + WINDOW_MS]),
          result |-> [allowed |-> TRUE, remaining |-> MAX_REQUESTS - 1]]
    ELSE IF map[ip].count > MAX_REQUESTS
         THEN [map |-> map, result |-> [allowed |-> FALSE, remaining |-> 0]]
         ELSE [map    |-> MapSet(map, ip, [count     |-> map[ip].count + 1,
                                           resetTime |-> map[ip].resetTime]),
               result |-> [allowed |-> TRUE,
                           remaining |-> MAX_REQUESTS - (map[ip].count + 1)]]

\* checkRateLimit(ip) at Date.now() = t: the map it leaves and the value it returns.
checkRateLimit(map, ip, t) ==
    IF ip \notin DOMAIN map \/ t > map[ip].resetTime
    THEN [map    |-> MapSet(map, ip, [count |-> 1, resetTime |-> t + WINDOW_MS]),
          result |-> [allowed |-> TRUE, remaining |-> MAX_REQUESTS - 1]]
    ELSE IF map[ip].count >= MAX_REQUESTS
         THEN [map |-> map, result |-> [allowed |-> FALSE, remaining |-> 0]]
         ELSE [map    |-> MapSet(map, ip, [count     |-> map[ip].count + 1,
                                           resetTime |-> map[ip].resetTime]),
               result |-> [allowed |-> TRUE,
                           remaining |-> MAX_REQUESTS - (map[ip].count + 1)]]

\* A plausible slip: a record is deleted at its reset time already.
cleanupExpiredRecords_atResetTime(map, t) ==
    MapDeleteAll(map, {ip \in DOMAIN map : t >= map[ip].resetTime})

\* cleanupExpiredRecords() at Date.now() = t
cleanupExpiredRecords(map, t) ==
    MapDeleteAll(map, {ip \in DOMAIN map : t > map[ip].resetTime})

\* One call of checkRateLimit by a request of client ip.
CheckRateLimit(ip) ==
    /\ Len(calls) < MaxCalls
    /\ LET r == checkRateLimit(rateLimitMap, ip, now)
       IN  /\ rateLimitMap' = r.map
           /\ calls' = Append(calls, [ip        |-> ip,
                                      at        |-> now,
                                      allowed   |-> r.result.allowed,
                                      remaining |-> r.result.remaining,
                                      stored    |-> r.map[ip]])
    /\ cleanupInterval' = ensureCleanupRunning(cleanupInterval)
    /\ UNCHANGED <<now, scoreVars, codecVars, postVars, hookVars, viewVars>>

\* The interval timer fires cleanupExpiredRecords.
CleanupTimer ==
    /\ cleanupInterval
    /\ rateLimitMap' = cleanupExpiredRecords(rateLimitMap, now)
    /\ UNCHANGED <<cleanupInterval, now, calls, scoreVars, codecVars, postVars, hookVars, viewVars>>

\* The clock advances.
Tick ==
    /\ now < MaxTime
    /\ now' = now + 1
    /\ UNCHANGED <<rateLimitMap, cleanupInterval, calls, scoreVars, codecVars, postVars, hookVars, viewVars>>

(***************************************************************************)
(* Scoring engine                                                          *)
(***************************************************************************)

\* string | null values are <<>> for null and <<s>> for the string s.
Null == <<>>
Some(x) == <<x>>

MaxTestFiles == 1

\* metrics.dependencyCount > 50
HEAVY_DEPENDENCIES == 50

ReadmeQualities ==
    { <<"m","i","s","s","i","n","g">>, <<"m","i","n","i","m","a","l">>,
      <<"b","a","s","i","c">>, <<"g","o","o","d">>,
      <<"e","x","c","e","l","l","e","n","t">> }

\* The providers of CI_PATTERNS that the inputs use, and null.
CiProviders ==
    { Null, Some(<<"G","i","t","H","u","b"," ","A","c","t","i","o","n","s">>) }

\* CodeMetrics values as analyzeCodeMetrics builds them: hasTests is
\* testFileCount > 0 and hasCI is !!ciProvider. The fields calculateScores never
\* reads are held at one value.
MetricsInputs ==
    { [ hasTests           |-> tests > 0,
        testFileCount      |-> tests,
        hasCI              |-> ci # Null,
        ciProvider         |-> ci,
        hasLinting         |-> b[1],
        hasTypeScript      |-> b[2],
        strictMode         |-> b[3],
        hasPrettier        |-> b[4],
        hasSecurityConfig  |-> b[5],
        hasEnvExample      |-> FALSE,
        exposedSecrets     |-> IF b[6] THEN <<".env">> ELSE <<>>,
        hasChangelog       |-> b[7],
        hasContributing    |-> FALSE,
        hasLicense         |-> b[8],
        readmeQuality      |-> rq,
        dependencyCount    |-> deps,
        devDependencyCount |-> 0,
        vulnerablePatterns |-> IF b[9] THEN <<"moment.js -> date-fns">> ELSE <<>>,
        largeFiles         |-> <<>>,
        codePatterns       |-> [hasErrorHandling |-> b[10], hasLogging |-> FALSE,
                                hasValidation |-> FALSE],
        missingEssentials  |-> <<>>,
        existingAutomations |-> <<>> ] :
      tests \in 0..MaxTestFiles, ci \in CiProviders, rq \in ReadmeQualities,
      deps \in {HEAVY_DEPENDENCIES, HEAVY_DEPENDENCIES + 1},
      b \in [1..10 -> BOOLEAN] }

Min(a, b) == IF a < b THEN a ELSE b
Max(a, b) == IF a > b THEN a ELSE b

\* One "if (cond) { score += delta; factors.push(text) }" step.
Delta(cond, delta) == IF cond THEN delta ELSE 0
Factor(cond, text) == IF cond THEN <<text>> ELSE <<>>

\* A plausible slip: the strict-mode bonus is granted for TypeScript alone.
codeQuality_strictWithTypeScript(m) ==
    LET cq == 50 + Delta(m.hasTypeScript, 20) + Delta(m.hasTypeScript, 10)
                 + Delta(m.hasLinting, 10) + Delta(m.hasPrettier, 5)
                 + Delta(m.codePatterns.hasErrorHandling, 5)
        cqf == Factor(m.hasTypeScript, <<"+","2","0",":"," ","T","y","p","e","S","c","r","i","p","t">>)
               \o Factor(m.hasTypeScript, <<"+","1","0",":"," ","S","t","r","i","c","t">>)
               \o Factor(m.hasLinting, <<"+","1","0",":"," ","L","i","n","t","i","n","g">>)
               \o Factor(m.hasPrettier, <<"+","5",":"," ","P","r","e","t","t","i","e","r">>)
               \o Factor(m.codePatterns.hasErrorHandling,
                         <<"+","5",":"," ","E","r","r","o","r"," ","h","a","n","d","l","i","n","g">>)
    IN  [score |-> Min(100, cq), factors |-> cqf]

codeQuality(m) ==
    LET cq == 50 + Delta(m.hasTypeScript, 20) + Delta(m.strictMode, 10)
                 + Delta(m.hasLinting, 10) + Delta(m.hasPrettier, 5)
                 + Delta(m.codePatterns.hasErrorHandling, 5)
        cqf == Factor(m.hasTypeScript, <<"+","2","0",":"," ","T","y","p","e","S","c","r","i","p","t">>)
               \o Factor(m.strictMode, <<"+","1","0",":"," ","S","t","r","i","c","t">>)
               \o Factor(m.hasLinting, <<"+","1","0",":"," ","L","i","n","t","i","n","g">>)
               \o Factor(m.hasPrettier, <<"+","5",":"," ","P","r","e","t","t","i","e","r">>)
               \o Factor(m.codePatterns.hasErrorHandling,
                         <<"+","5",":"," ","E","r","r","o","r"," ","h","a","n","d","l","i","n","g">>)
    IN  [score |-> Min(100, cq), factors |-> cqf]

rmScore(quality) ==
    CASE quality = <<"m","i","s","s","i","n","g">> -> 0
      [] quality = <<"m","i","n","i","m","a","l">> -> 10
      [] quality = <<"b","a","s","i","c">> -> 25
      [] quality = <<"g","o","o","d">> -> 40
      [] quality = <<"e","x","c","e","l","l","e","n","t">> -> 50

documentation(m) ==
    LET doc == 30 + rmScore(m.readmeQuality) + Delta(m.hasChangelog, 10)
                  + Delta(~m.hasLicense, -15)
        docf == << <<"R","E","A","D","M","E",":"," ">> \o m.readmeQuality >>
                \o Factor(m.hasChangelog, <<"+","1","0",":"," ","C","H","A","N","G","E","L","O","G">>)
                \o Factor(~m.hasLicense, <<"-","1","5",":"," ","N","o"," ","L","I","C","E","N","S","E">>)
    IN  [score |-> Max(0, Min(100, doc)), factors |-> docf]

security(m) ==
    LET sec == 70 + Delta(m.hasSecurityConfig, 15)
                  + Delta(Len(m.exposedSecrets) > 0, -30)
                  + Delta(Len(m.vulnerablePatterns) > 0, -15)
        secf == Factor(m.hasSecurityConfig,
                       <<"+","1","5",":"," ","S","e","c","u","r","i","t","y"," ","c","o","n","f","i","g">>)
                \o Factor(Len(m.exposedSecrets) > 0,
                       <<"-","3","0",":"," ","S","e","c","r","e","t","s"," ","e","x","p","o","s","e","d">>)
                \o Factor(Len(m.vulnerablePatterns) > 0,
                       <<"-","1","5",":"," ","D","e","p","r","e","c","a","t","e","d"," ","d","e","p","s">>)
    IN  [score |-> Max(0, Min(100, sec)), factors |-> secf]

\* `${metrics.ciProvider}`: a null prints as "null".
TemplateString(v) == IF v = Null THEN <<"n","u","l","l">> ELSE v[1]

maintainability(m) ==
    LET maint == 50 + Delta(m.hasCI, 25) + Delta(m.hasTypeScript, 15)
                    + Delta(m.hasLinting, 10)
        mf == Factor(m.hasCI, <<"+","2","5",":"," ">> \o TemplateString(m.ciProvider))
              \o Factor(m.hasTypeScript, <<"+","1","5",":"," ","T","y","p","e","s">>)
              \o Factor(m.hasLinting, <<"+","1","0",":"," ","L","i","n","t","i","n","g">>)
    IN  [score |-> Min(100, maint), factors |-> mf]

testCoverage(m) ==
    LET test == 20 + Delta(m.hasTests, 50) + Delta(m.hasCI, 10)
        tf == Factor(m.hasTests, <<"+","5","0",":"," ","T","e","s","t","s"," ","e","x","i","s","t">>)
              \o Factor(m.hasCI, <<"+","1","0",":"," ","C","I">>)
    IN  [score |-> Min(100, test), factors |-> tf]

dependencies(m) ==
    LET dep == 80 + Delta(Len(m.vulnerablePatterns) > 0, -20)
                  + Delta(m.dependencyCount > HEAVY_DEPENDENCIES, -10)
        df == Factor(Len(m.vulnerablePatterns) > 0,
                     <<"-","2","0",":"," ","D","e","p","r","e","c","a","t","e","d">>)
              \o Factor(m.dependencyCount > HEAVY_DEPENDENCIES,
                     <<"-","1","0",":"," ","H","e","a","v","y">>)
    IN  [score |-> Max(0, dep), factors |-> df]

(***************************************************************************)
(* IEEE-754 double arithmetic, as far as calculateScores uses it.  A       *)
(* non-negative double below 128 whose unit in the last place is at least  *)
(* 2^-56 is the natural number value * 2^56, held as three limbs           *)
(* <<l0, l1, l2>> in base 2^24 (value * 2^56 = l0 + l1*2^24 + l2*2^48).    *)
(***************************************************************************)
Limb == 4096 * 4096

\* The literals 0.2, 0.15 and 0.1: the doubles nearest to them.
\*   0.2  = 0x1.999999999999Ap-3,  0.15 = 0x1.3333333333333p-3,
\*   0.1  = 0x1.999999999999Ap-4
Double(literal) ==
    CASE literal = "0.2"  -> <<3355444, 3355443, 51>>
      [] literal = "0.15" -> <<6710886, 6710886, 38>>
      [] literal = "0.1"  -> <<10066330, 10066329, 25>>

Carry(l) ==
    LET t1 == l[2] + (l[1] \div Limb)
    IN  <<l[1] % Limb, t1 % Limb, l[3] + (t1 \div Limb)>>

RECURSIVE Log2(_)
Log2(n) == IF n <= 1 THEN 0 ELSE 1 + Log2(n \div 2)

\* Index of the most significant set bit.
TopBit(l) ==
    IF l[3] > 0 THEN 48 + Log2(l[3])
    ELSE IF l[2] > 0 THEN 24 + Log2(l[2])
    ELSE Log2(l[1])

\* Round an exact result to 53 significant bits, ties to even.
RoundToDouble(l) ==
    IF l = <<0, 0, 0>> \/ TopBit(l) <= 52 THEN l
    ELSE LET p    == 2 ^ (TopBit(l) - 52)
             r    == l[1] % p
             up   == r > p \div 2 \/ (r = p \div 2 /\ (l[1] \div p) % 2 = 1)
         IN  Carry(<<l[1] - r + (IF up THEN p ELSE 0), l[2], l[3]>>)

\* integer * double and double + double, each rounded once
DoubleTimes(k, d) == RoundToDouble(Carry(<<k * d[1], k * d[2], k * d[3]>>))
DoublePlus(a, b) == RoundToDouble(Carry(<<a[1] + b[1], a[2] + b[2], a[3] + b[3]>>))

\* A plausible slip: Math.floor where Math.round was meant.
MathRound_floor(d) == d[3] \div 256

\* Math.round of a non-negative double: halves round up.
MathRound(d) == (d[3] \div 256) + ((d[3] \div 128) % 2)

\* A plausible slip: the code-quality weight loses its decimal point (2 for 0.2).
overall_weightTypo(breakdown) ==
    MathRound(
      DoublePlus(DoublePlus(DoublePlus(DoublePlus(DoublePlus(
        DoubleTimes(breakdown.codeQuality.score * 10, Double("0.2")),
        DoubleTimes(breakdown.documentation.score, Double("0.15"))),
        DoubleTimes(breakdown.security.score, Double("0.2"))),
        DoubleTimes(breakdown.maintainability.score, Double("0.2"))),
        DoubleTimes(breakdown.testCoverage.score, Double("0.15"))),
        DoubleTimes(breakdown.dependencies.score, Double("0.1"))))

\* The weighted sum, added left to right in double arithmetic, then rounded.
overall(breakdown) ==
    MathRound(
      DoublePlus(DoublePlus(DoublePlus(DoublePlus(DoublePlus(
        DoubleTimes(breakdown.codeQuality.score, Double("0.2")),
        DoubleTimes(breakdown.documentation.score, Double("0.15"))),
        DoubleTimes(breakdown.security.score, Double("0.2"))),
        DoubleTimes(breakdown.maintainability.score, Double("0.2"))),
        DoubleTimes(breakdown.testCoverage.score, Double("0.15"))),
        DoubleTimes(breakdown.dependencies.score, Double("0.1"))))

Breakdown(m) ==
    [ codeQuality     |-> codeQuality(m),
      documentation   |-> documentation(m),
      security        |-> security(m),
      maintainability |-> maintainability(m),
      testCoverage    |-> testCoverage(m),
      dependencies    |-> dependencies(m) ]

calculateScores(m) ==
    LET breakdown == Breakdown(m)
    IN  [ overall         |-> overall(breakdown),
          codeQuality     |-> breakdown.codeQuality.score,
          documentation   |-> breakdown.documentation.score,
          security        |-> breakdown.security.score,
          maintainability |-> breakdown.maintainability.score,
          testCoverage    |-> breakdown.testCoverage.score,
          dependencies    |-> breakdown.dependencies.score,
          breakdown       |-> breakdown ]

\* calculateScores(metrics) is called and returns.
CalculateScores ==
    /\ scores = Null
    /\ scores' = Some(calculateScores(metrics))
    /\ UNCHANGED <<metrics, rlVars, codecVars, postVars, hookVars, viewVars>>

(***************************************************************************)
(* Diagram codec: sanitizeLabel, sanitizeId, validateMermaidSyntax         *)
(***************************************************************************)

LowerCaseLetters == <<"a","b","c","d","e","f","g","h","i","j","k","l","m","n","o","p","q","r","s","t","u","v","w","x","y","z">>
UpperCaseLetters == <<"A","B","C","D","E","F","G","H","I","J","K","L","M","N","O","P","Q","R","S","T","U","V","W","X","Y","Z">>
Letters == {LowerCaseLetters[i] : i \in 1..26} \cup {UpperCaseLetters[i] : i \in 1..26}
Digits == {"0","1","2","3","4","5","6","7","8","9"}

\* What \s matches and trim() strips, among the characters of the inputs.
WhiteSpace == {" ", "\t", "\n", "\r"}

\* if (!text): null, undefined and "" are falsy.
Falsy(v) == v = Null \/ v[1] = <<>>

\* s.replace(/[set]/g, to)
RECURSIVE ReplaceAll(_, _, _)
ReplaceAll(s, set, to) ==
    IF s = <<>> THEN <<>>
    ELSE (IF Head(s) \in set THEN to ELSE <<Head(s)>>) \o ReplaceAll(Tail(s), set, to)

RECURSIVE TrimStart(_)
TrimStart(s) == IF s # <<>> /\ Head(s) \in WhiteSpace THEN TrimStart(Tail(s)) ELSE s

RECURSIVE TrimEnd(_)
TrimEnd(s) ==
    IF s # <<>> /\ s[Len(s)] \in WhiteSpace THEN TrimEnd(SubSeq(s, 1, Len(s) - 1)) ELSE s

\* String.prototype.trim
Trim(s) == TrimEnd(TrimStart(s))

\* s.replace(/\s+/g, " ")
RECURSIVE CollapseWhiteSpace(_)
CollapseWhiteSpace(s) ==
    IF s = <<>> THEN <<>>
    ELSE IF Head(s) \in WhiteSpace THEN <<" ">> \o CollapseWhiteSpace(TrimStart(s))
    ELSE <<Head(s)>> \o CollapseWhiteSpace(Tail(s))

\* s.slice(0, n)
Slice(s, n) == SubSeq(s, 1, Min(n, Len(s)))

\* String.prototype.toLowerCase
ToLowerCase(s) ==
    [i \in 1..Len(s) |->
        IF \E k \in 1..26 : UpperCaseLetters[k] = s[i]
        THEN LowerCaseLetters[CHOOSE k \in 1..26 : UpperCaseLetters[k] = s[i]]
        ELSE s[i]]

\* String.prototype.toUpperCase
ToUpperCase(s) ==
    [i \in 1..Len(s) |->
        IF \E k \in 1..26 : LowerCaseLetters[k] = s[i]
        THEN UpperCaseLetters[CHOOSE k \in 1..26 : LowerCaseLetters[k] = s[i]]
        ELSE s[i]]

\* String.prototype.startsWith
StartsWith(s, prefix) == Len(s) >= Len(prefix) /\ SubSeq(s, 1, Len(prefix)) = prefix

\* .slice(0, 40) of sanitizeLabel and .slice(0, 30) of sanitizeId
LABEL_SLICE == 40
ID_SLICE == 30

\* The replacement characters U+2039, U+203A and U+00A6 are named by code point.
sanitizeLabel(text) ==
    IF Falsy(text) THEN <<"U","n","k","n","o","w","n">>
    ELSE LET r1  == ReplaceAll(text[1], {"("}, <<"[">>)
             r2  == ReplaceAll(r1, {")"}, <<"]">>)
             r3  == ReplaceAll(r2, {"["}, <<"[">>)
             r4  == ReplaceAll(r3, {"]"}, <<"]">>)
             r5  == ReplaceAll(r4, {"\""}, <<"'">>)
             r6  == ReplaceAll(r5, {"<"}, <<"U+2039">>)
             r7  == ReplaceAll(r6, {">"}, <<"U+203A">>)
             r8  == ReplaceAll(r7, {"|"}, <<"U+00A6">>)
             r9  == ReplaceAll(r8, {"{"}, <<"[">>)
             r10 == ReplaceAll(r9, {"}"}, <<"]">>)
             r11 == ReplaceAll(r10, {"\n"}, <<" ">>)
             r12 == ReplaceAll(r11, {"\r"}, <<>>)
         IN  Slice(Trim(CollapseWhiteSpace(r12)), LABEL_SLICE)

\* `node_${Date.now()}_${Math.random().toString(36).slice(2, 6)}`: the clock
\* readings and random suffixes (up to four base-36 digits) the model draws from.
ClockReadings ==
    { <<"1","7","9","3","6","4","9","6","0","0","0","0","0">>,
      <<"1","7","9","3","6","4","9","6","0","0","0","0","1">> }
RandomSuffixes == { <<>>, <<"k">>, <<"4","f","z","9">>, <<"0","q","1","x">> }

\* A plausible slip: the length cap is left out.
sanitizeId_noSlice(id) ==
    IF Falsy(id)
    THEN { <<"n","o","d","e","_">> \o t \o <<"_">> \o r :
             t \in ClockReadings, r \in RandomSuffixes }
    ELSE LET r1 == [i \in 1..Len(id[1]) |->
                       IF id[1][i] \in Letters \cup Digits \cup {"_", "-"}
                       THEN id[1][i] ELSE "_"]
             r2 == IF r1 # <<>> /\ Head(r1) \notin Letters
                   THEN <<"n">> \o Tail(r1) ELSE r1
         IN  { r2 }

\* The set of values sanitizeId(id) can return: one value for a non-empty id,
\* a fresh generated id for an empty or missing one.
sanitizeId(id) ==
    IF Falsy(id)
    THEN { <<"n","o","d","e","_">> \o t \o <<"_">> \o r :
             t \in ClockReadings, r \in RandomSuffixes }
    ELSE LET r1 == [i \in 1..Len(id[1]) |->
                       IF id[1][i] \in Letters \cup Digits \cup {"_", "-"}
                       THEN id[1][i] ELSE "_"]
             r2 == IF r1 # <<>> /\ Head(r1) \notin Letters
                   THEN <<"n">> \o Tail(r1) ELSE r1
         IN  { Slice(r2, ID_SLICE) }

validStarts ==
    << <<"f","l","o","w","c","h","a","r","t">>,
       <<"g","r","a","p","h">>,
       <<"s","e","q","u","e","n","c","e","D","i","a","g","r","a","m">>,
       <<"c","l","a","s","s","D","i","a","g","r","a","m">>,
       <<"s","t","a","t","e","D","i","a","g","r","a","m">>,
       <<"e","r","D","i","a","g","r","a","m">>,
       <<"g","a","n","t","t">>,
       <<"p","i","e">>,
       <<"m","i","n","d","m","a","p">> >>

validateMermaidSyntax(code) ==
    IF Falsy(code) THEN FALSE
    ELSE LET trimmed == ToLowerCase(Trim(code[1]))
         IN  \E k \in 1..Len(validStarts) : StartsWith(trimmed, validStarts[k])

\* Every string over the alphabet of length at most n
Strings(alphabet, n) == UNION { [1..k -> alphabet] : k \in 0..n }

\* n filler letters
Pad(n) == [i \in 1..n |-> "a"]

\* No padding, and paddings that bring an input of up to k more characters to
\* just below, onto and beyond the cap.
PadLengths(cap, k) == {0} \cup ((cap - k)..cap)

MaxLabelLen == 2
MaxIdLen == 2
MaxLead == 1

LabelAlphabet ==
    {"a", " ", "\t", "\n", "\r", "(", ")", "[", "]", "{", "}", "\"", "<", ">", "|"}

IdAlphabet == {"a", "Z", "7", "_", "-", "$", " ", "."}

LabelInputs ==
    {Null} \cup { Some(Pad(n) \o t) :
                    n \in PadLengths(LABEL_SLICE, MaxLabelLen),
                    t \in Strings(LabelAlphabet, MaxLabelLen) }

IdInputs ==
    {Null} \cup { Some(h \o Pad(n) \o t) :
                    h \in Strings(IdAlphabet, MaxIdLen),
                    n \in PadLengths(ID_SLICE, MaxIdLen),
                    t \in Strings(IdAlphabet, 1) }

\* Diagram texts: a first word in three casings, between leading white space
\* and a remainder.
MermaidWords ==
    { validStarts[k] : k \in 1..Len(validStarts) }
    \cup { <<>>, <<"f","l","o","w">>, <<"d","i","g","r","a","p","h">>, <<"%","%">> }

MermaidInputs ==
    {Null} \cup { Some(lead \o word \o rest) :
                    lead \in Strings({" ", "\n"}, MaxLead),
                    word \in UNION { {w, ToLowerCase(w), ToUpperCase(w)} : w \in MermaidWords },
                    rest \in { <<>>, <<" ","T","D">>, <<"\n","A","-","-",">","B">> } }

SanitizeLabel ==
    /\ fn = "sanitizeLabel" /\ out1 = Null
    /\ out1' = Some(sanitizeLabel(input))
    /\ UNCHANGED <<fn, input, out2, rlVars, scoreVars, postVars, hookVars, viewVars>>

\* The label returned is passed through sanitizeLabel once more.
SanitizeLabelAgain ==
    /\ fn = "sanitizeLabel" /\ out1 # Null /\ out2 = Null
    /\ out2' = Some(sanitizeLabel(out1))
    /\ UNCHANGED <<fn, input, out1, rlVars, scoreVars, postVars, hookVars, viewVars>>

SanitizeId ==
    /\ fn = "sanitizeId" /\ out1 = Null
    /\ \E r \in sanitizeId(input) : out1' = Some(r)
    /\ UNCHANGED <<fn, input, out2, rlVars, scoreVars, postVars, hookVars, viewVars>>

\* The id returned is passed through sanitizeId once more.
SanitizeIdAgain ==
    /\ fn = "sanitizeId" /\ out1 # Null /\ out2 = Null
    /\ \E r \in sanitizeId(out1) : out2' = Some(r)
    /\ UNCHANGED <<fn, input, out1, rlVars, scoreVars, postVars, hookVars, viewVars>>

ValidateMermaidSyntax ==
    /\ fn = "validateMermaidSyntax" /\ out1 = Null
    /\ out1' = Some(validateMermaidSyntax(input))
    /\ UNCHANGED <<fn, input, out2, rlVars, scoreVars, postVars, hookVars, viewVars>>

(***************************************************************************)
(* Diagram codec: the diagram generators and processDiagrams               *)
(***************************************************************************)

\* lines.join(sep)
RECURSIVE Join(_, _)
Join(lines, sep) ==
    IF lines = <<>> THEN <<>>
    ELSE IF Len(lines) = 1 THEN lines[1]
    ELSE lines[1] \o sep \o Join(Tail(lines), sep)

\* idMap.get(key) after idMap.set(items[i].id, safeIds[i]) for i = 1, 2, ...:
\* a later entry with the same key replaces an earlier one.
idMapGet(items, safeIds, key) ==
    LET hits == { i \in 1..Len(items) : items[i].id = key }
    IN  IF hits = {} THEN Null
        ELSE Some(safeIds[CHOOSE i \in hits : \A j \in hits : j <= i])

\* The values of typeGroups, in the order Object.entries lists its keys: the
\* order in which the types first occur.
RECURSIVE typeGroups(_, _, _)
typeGroups(items, safeIds, seen) ==
    IF items = <<>> THEN <<>>
    ELSE LET type == Head(items).type
             rest == typeGroups(Tail(items), Tail(safeIds), seen \cup {type})
         IN  IF type \in seen THEN rest
             ELSE LET ids == [k \in 1..Cardinality({ i \in 1..Len(items) : items[i].type = type }) |->
                                 safeIds[CHOOSE i \in 1..Len(items) :
                                     /\ items[i].type = type
                                     /\ Cardinality({ j \in 1..i : items[j].type = type }) = k]]
                  IN  << <<" "," "," "," ","c","l","a","s","s"," ">> \o Join(ids, <<",">>) \o <<" ">> \o type >> \o rest

\* One choice of return value for each sanitizeId(items[i].id) call made while
\* walking the items.
SafeIdChoices(items) ==
    { s \in [1..Len(items) -> UNION { sanitizeId(items[i].id) : i \in 1..Len(items) }] :
        \A i \in 1..Len(items) : s[i] \in sanitizeId(items[i].id) }

getNodeShape(type) ==
    CASE type = <<"f","r","o","n","t","e","n","d">>   -> [open |-> <<"[">>, close |-> <<"]">>]
      [] type = <<"b","a","c","k","e","n","d">>    -> [open |-> <<"[","[">>, close |-> <<"]","]">>]
      [] type = <<"d","a","t","a","b","a","s","e">>   -> [open |-> <<"[","(">>, close |-> <<")","]">>]
      [] type = <<"s","e","r","v","i","c","e">>    -> [open |-> <<"{","{">>, close |-> <<"}","}">>]
      [] type = <<"e","x","t","e","r","n","a","l">>   -> [open |-> <<"[","/">>, close |-> <<"/","]">>]
      [] type = <<"m","i","d","d","l","e","w","a","r","e">> -> [open |-> <<"[">>, close |-> <<"]">>]
      [] OTHER                 -> [open |-> <<"[","[">>, close |-> <<"]","]">>]

\* The connection lines of generateArchitectureDiagram, given the pairs
\* <<fromId, toId>> in the order the two loops visit them and the keys already
\* in addedConnections.
RECURSIVE connectionLines(_, _)
connectionLines(pairs, addedConnections) ==
    IF pairs = <<>> THEN <<>>
    ELSE LET fromId == Head(pairs)[1]
             toId == Head(pairs)[2]
             connectionKey == fromId \o <<"-">> \o toId
             reverseKey == toId \o <<"-">> \o fromId
         IN  IF connectionKey \notin addedConnections /\ reverseKey \notin addedConnections
             THEN << <<" "," "," "," ">> \o fromId \o <<" ","-","-",">"," ">> \o toId >>
                  \o connectionLines(Tail(pairs), addedConnections \cup {connectionKey})
             ELSE connectionLines(Tail(pairs), addedConnections)

\* The pairs <<fromId, toId>> of the connections whose two ends are in idMap.
RECURSIVE connectionPairs(_, _, _, _)
connectionPairs(components, mapIds, i, k) ==
    IF i > Len(components) THEN <<>>
    ELSE IF k > Len(components[i].connections)
         THEN connectionPairs(components, mapIds, i + 1, 1)
    ELSE LET fromId == idMapGet(components, mapIds, components[i].id)
             toId == idMapGet(components, mapIds, components[i].connections[k])
         IN  (IF toId = Null \/ fromId[1] = <<>> \/ toId[1] = <<>> THEN <<>>
              ELSE << <<fromId[1], toId[1]>> >>)
             \o connectionPairs(components, mapIds, i, k + 1)

\* generateArchitectureDiagram(components), with safeIds the values the
\* sanitizeId calls of the node loop returned and mapIds those of the calls that
\* build idMap.
generateArchitectureDiagram(components, safeIds, mapIds) ==
    IF components = <<>>
    THEN [type |-> "flowchart", title |-> "System Architecture",
          code |-> <<"f","l","o","w","c","h","a","r","t"," ","T","D","\n"," "," "," "," ","e","m","p","t","y","[","N","o"," ","a","r","c","h","i","t","e","c","t","u","r","e"," ","d","a","t","a"," ","a","v","a","i","l","a","b","l","e","]">>]
    ELSE LET nodeLine(i) ==
                 LET nodeShape == getNodeShape(components[i].type)
                     label == sanitizeLabel(components[i].name)
                     techs == Slice(components[i].technologies, 2)
                     tech == Join([k \in 1..Len(techs) |-> sanitizeLabel(Some(techs[k]))], <<","," ">>)
                     fullLabel == IF tech # <<>>
                                  THEN label \o <<"<","b","r","/",">","<","s","m","a","l","l",">">> \o tech \o <<"<","/","s","m","a","l","l",">">>
                                  ELSE label
                 IN  <<" "," "," "," ">> \o safeIds[i] \o nodeShape.open \o <<"\"">> \o fullLabel
                     \o <<"\"">> \o nodeShape.close
         IN  [type |-> "flowchart", title |-> "System Architecture", code |->
             Join(<< <<"f","l","o","w","c","h","a","r","t"," ","T","D">> >>
                  \o [i \in 1..Len(components) |-> nodeLine(i)]
                  \o connectionLines(connectionPairs(components, mapIds, 1, 1), {})
                  \o << <<>>,
                        <<" "," "," "," ","c","l","a","s","s","D","e","f"," ","f","r","o","n","t","e","n","d"," ","f","i","l","l",":","#","3","b","8","2","f","6",",","s","t","r","o","k","e",":","#","1","d","4","e","d","8",",","c","o","l","o","r",":","#","f","f","f">>,
                        <<" "," "," "," ","c","l","a","s","s","D","e","f"," ","b","a","c","k","e","n","d"," ","f","i","l","l",":","#","1","0","b","9","8","1",",","s","t","r","o","k","e",":","#","0","5","9","6","6","9",",","c","o","l","o","r",":","#","f","f","f">>,
                        <<" "," "," "," ","c","l","a","s","s","D","e","f"," ","d","a","t","a","b","a","s","e"," ","f","i","l","l",":","#","8","b","5","c","f","6",",","s","t","r","o","k","e",":","#","6","d","2","8","d","9",",","c","o","l","o","r",":","#","f","f","f">>,
                        <<" "," "," "," ","c","l","a","s","s","D","e","f"," ","s","e","r","v","i","c","e"," ","f","i","l","l",":","#","f","5","9","e","0","b",",","s","t","r","o","k","e",":","#","d","9","7","7","0","6",",","c","o","l","o","r",":","#","f","f","f">>,
                        <<" "," "," "," ","c","l","a","s","s","D","e","f"," ","e","x","t","e","r","n","a","l"," ","f","i","l","l",":","#","6","b","7","2","8","0",",","s","t","r","o","k","e",":","#","4","b","5","5","6","3",",","c","o","l","o","r",":","#","f","f","f">>,
                        <<" "," "," "," ","c","l","a","s","s","D","e","f"," ","m","i","d","d","l","e","w","a","r","e"," ","f","i","l","l",":","#","e","c","4","8","9","9",",","s","t","r","o","k","e",":","#","d","b","2","7","7","7",",","c","o","l","o","r",":","#","f","f","f">> >>
                  \o typeGroups(components, safeIds, {}),
                  <<"\n">>)]

nodeStyles(type) ==
    CASE type = <<"s","o","u","r","c","e">>  -> [open |-> <<"(","[">>, close |-> <<"]",")">>]
      [] type = <<"p","r","o","c","e","s","s">> -> [open |-> <<"[">>, close |-> <<"]">>]
      [] type = <<"s","t","o","r","e">>   -> [open |-> <<"[","(">>, close |-> <<")","]">>]
      [] type = <<"o","u","t","p","u","t">>  -> [open |-> <<"[","[">>, close |-> <<"]","]">>]
      [] OTHER              -> [open |-> <<"[">>, close |-> <<"]">>]

\* generateDataFlowDiagram(nodes, edges), with safeIds the values the sanitizeId
\* calls returned.
generateDataFlowDiagram(nodes, edges, safeIds) ==
    IF nodes = <<>>
    THEN [type |-> "flowchart", title |-> "Data Flow",
          code |-> <<"f","l","o","w","c","h","a","r","t"," ","L","R","\n"," "," "," "," ","e","m","p","t","y","[","N","o"," ","d","a","t","a"," ","f","l","o","w"," ","a","v","a","i","l","a","b","l","e","]">>]
    ELSE LET nodeLine(i) ==
                 LET style == nodeStyles(nodes[i].type)
                     label == sanitizeLabel(nodes[i].name)
                 IN  <<" "," "," "," ">> \o safeIds[i] \o style.open \o <<"\"">> \o label \o <<"\"">> \o style.close
             edgeLine(e) ==
                 LET fromId == idMapGet(nodes, safeIds, e.from)
                     toId == idMapGet(nodes, safeIds, e.to)
                 IN  IF Falsy(fromId) \/ Falsy(toId) THEN <<>>
                     ELSE IF ~Falsy(e.label)
                     THEN << <<" "," "," "," ">> \o fromId[1] \o <<" ","-","-",">","|","\"">> \o sanitizeLabel(e.label)
                             \o <<"\"","|"," ">> \o toId[1] >>
                     ELSE << <<" "," "," "," ">> \o fromId[1] \o <<" ","-","-",">"," ">> \o toId[1] >>
             EdgeLines[k \in 0..Len(edges)] ==
                 IF k = 0 THEN <<>> ELSE EdgeLines[k - 1] \o edgeLine(edges[k])
         IN  [type |-> "flowchart", title |-> "Data Flow", code |->
             Join(<< <<"f","l","o","w","c","h","a","r","t"," ","L","R">> >>
                  \o [i \in 1..Len(nodes) |-> nodeLine(i)]
                  \o EdgeLines[Len(edges)]
                  \o << <<>>,
                        <<" "," "," "," ","c","l","a","s","s","D","e","f"," ","s","o","u","r","c","e"," ","f","i","l","l",":","#","2","2","c","5","5","e",",","s","t","r","o","k","e",":","#","1","6","a","3","4","a",",","c","o","l","o","r",":","#","f","f","f">>,
                        <<" "," "," "," ","c","l","a","s","s","D","e","f"," ","p","r","o","c","e","s","s"," ","f","i","l","l",":","#","3","b","8","2","f","6",",","s","t","r","o","k","e",":","#","2","5","6","3","e","b",",","c","o","l","o","r",":","#","f","f","f">>,
                        <<" "," "," "," ","c","l","a","s","s","D","e","f"," ","s","t","o","r","e"," ","f","i","l","l",":","#","8","b","5","c","f","6",",","s","t","r","o","k","e",":","#","7","c","3","a","e","d",",","c","o","l","o","r",":","#","f","f","f">>,
                        <<" "," "," "," ","c","l","a","s","s","D","e","f"," ","o","u","t","p","u","t"," ","f","i","l","l",":","#","f","9","7","3","1","6",",","s","t","r","o","k","e",":","#","e","a","5","8","0","c",",","c","o","l","o","r",":","#","f","f","f">> >>
                  \o typeGroups(nodes, safeIds, {}),
                  <<"\n">>)]

\* edge.label || edge.dataType || "data"
LabelOrDataType(e) ==
    IF ~Falsy(e.label) THEN e.label
    ELSE IF ~Falsy(e.dataType) THEN e.dataType
    ELSE Some(<<"d","a","t","a">>)

\* generateSequenceDiagram(nodes, edges), with safeIds the values the sanitizeId
\* calls returned.
generateSequenceDiagram(nodes, edges, safeIds) ==
    IF nodes = <<>> \/ edges = <<>>
    THEN [type |-> "sequenceDiagram", title |-> "Sequence Diagram",
          code |-> <<"s","e","q","u","e","n","c","e","D","i","a","g","r","a","m","\n"," "," "," "," ","N","o","t","e"," ","o","v","e","r"," ","S","y","s","t","e","m",":"," ","N","o"," ","s","e","q","u","e","n","c","e"," ","d","a","t","a"," ","a","v","a","i","l","a","b","l","e">>]
    ELSE LET participant(i) ==
                 <<" "," "," "," ","p","a","r","t","i","c","i","p","a","n","t"," ">> \o safeIds[i] \o <<" ","a","s"," ">> \o sanitizeLabel(nodes[i].name)
             interaction(e) ==
                 LET fromId == idMapGet(nodes, safeIds, e.from)
                     toId == idMapGet(nodes, safeIds, e.to)
                 IN  IF Falsy(fromId) \/ Falsy(toId) THEN <<>>
                     ELSE << <<" "," "," "," ">> \o fromId[1] \o <<"-",">",">","+">> \o toId[1] \o <<":"," ">>
                             \o sanitizeLabel(LabelOrDataType(e)) >>
             Interactions[k \in 0..Len(edges)] ==
                 IF k = 0 THEN <<>> ELSE Interactions[k - 1] \o interaction(edges[k])
         IN  [type |-> "sequenceDiagram", title |-> "Sequence Diagram", code |->
             Join(<< <<"s","e","q","u","e","n","c","e","D","i","a","g","r","a","m">> >>
                  \o [i \in 1..Len(nodes) |-> participant(i)]
                  \o << <<>> >>
                  \o Interactions[Len(edges)],
                  <<"\n">>)]

\* processDiagrams(aiDiagrams, architecture, dataFlow): a field of the result
\* that is never assigned is absent (Null).  ids holds the values returned by
\* the sanitizeId calls of the three generators.
processDiagrams(aiDiagrams, architecture, dataFlow, ids) ==
    [ architecture |->
          IF aiDiagrams.architecture # Null
             /\ validateMermaidSyntax(Some(aiDiagrams.architecture[1].code))
          THEN aiDiagrams.architecture
          ELSE IF architecture # <<>>
          THEN Some(generateArchitectureDiagram(architecture, ids.architecture, ids.idMap))
          ELSE Null,
      dataFlow |->
          IF aiDiagrams.dataFlow # Null
             /\ validateMermaidSyntax(Some(aiDiagrams.dataFlow[1].code))
          THEN aiDiagrams.dataFlow
          ELSE IF dataFlow.nodes # <<>>
          THEN Some(generateDataFlowDiagram(dataFlow.nodes, dataFlow.edges, ids.dataFlow))
          ELSE Null,
      components |->
          IF aiDiagrams.components # Null
             /\ validateMermaidSyntax(Some(aiDiagrams.components[1].code))
          THEN aiDiagrams.components
          ELSE IF dataFlow.nodes # <<>> /\ dataFlow.edges # <<>>
          THEN Some(generateSequenceDiagram(dataFlow.nodes, dataFlow.edges, ids.components))
          ELSE Null ]

\* escapeLabel of lib/mermaid.ts
escapeLabel(text) ==
    LET r1 == ReplaceAll(text, {"\""}, <<"'">>)
        r2 == ReplaceAll(r1, {"["}, <<"(">>)
        r3 == ReplaceAll(r2, {"]"}, <<")">>)
        r4 == ReplaceAll(r3, {"<", ">"}, <<>>)
    IN  Slice(r4, 50)

\* generateDataFlowDiagram of lib/mermaid.ts, the one the DataFlowDiagram
\* component imports: ids are written as they come.
libGenerateDataFlowDiagram(nodes, edges) ==
    IF nodes = <<>>
    THEN [type |-> "flowchart", title |-> "Data Flow",
          code |-> <<"f","l","o","w","c","h","a","r","t"," ","L","R","\n"," "," "," "," ","A","[","N","o"," ","d","a","t","a"," ","f","l","o","w"," ","a","v","a","i","l","a","b","l","e","]">>]
    ELSE LET nodeLine(i) ==
                 LET style == nodeStyles(nodes[i].type)
                 IN  <<" "," "," "," ">> \o nodes[i].id[1] \o style.open \o escapeLabel(nodes[i].name[1])
                     \o style.close
             edgeLine(e) ==
                 LET label == IF ~Falsy(e.label)
                              THEN <<"|">> \o escapeLabel(e.label[1]) \o <<"|">>
                              ELSE <<>>
                 IN  <<" "," "," "," ">> \o e.from[1] \o <<" ","-","-",">">> \o label \o <<" ">> \o e.to[1]
         IN  [type |-> "flowchart", title |-> "Data Flow", code |->
             Join(<< <<"f","l","o","w","c","h","a","r","t"," ","L","R">> >>
                  \o [i \in 1..Len(nodes) |-> nodeLine(i)]
                  \o [k \in 1..Len(edges) |-> edgeLine(edges[k])]
                  \o << <<>>,
                        <<" "," "," "," ","c","l","a","s","s","D","e","f"," ","s","o","u","r","c","e"," ","f","i","l","l",":","#","2","2","c","5","5","e",",","s","t","r","o","k","e",":","#","1","6","a","3","4","a",",","c","o","l","o","r",":","#","f","f","f">>,
                        <<" "," "," "," ","c","l","a","s","s","D","e","f"," ","p","r","o","c","e","s","s"," ","f","i","l","l",":","#","3","b","8","2","f","6",",","s","t","r","o","k","e",":","#","2","5","6","3","e","b",",","c","o","l","o","r",":","#","f","f","f">>,
                        <<" "," "," "," ","c","l","a","s","s","D","e","f"," ","s","t","o","r","e"," ","f","i","l","l",":","#","8","b","5","c","f","6",",","s","t","r","o","k","e",":","#","7","c","3","a","e","d",",","c","o","l","o","r",":","#","f","f","f">>,
                        <<" "," "," "," ","c","l","a","s","s","D","e","f"," ","o","u","t","p","u","t"," ","f","i","l","l",":","#","f","9","7","3","1","6",",","s","t","r","o","k","e",":","#","e","a","5","8","0","c",",","c","o","l","o","r",":","#","f","f","f">> >>
                  \o typeGroups(nodes, [i \in 1..Len(nodes) |-> nodes[i].id[1]], {}),
                  <<"\n">>)]

\* The diagram the DataFlowDiagram component computes from its props
\* (useMemo): the mermaidDiagram prop when given, else a generated diagram
\* when there are nodes, else null.
DataFlowDiagram_diagram(props) ==
    IF props.mermaidDiagram # Null THEN props.mermaidDiagram
    ELSE IF props.nodes # <<>>
    THEN Some(libGenerateDataFlowDiagram(props.nodes, props.edges))
    ELSE Null

\* Structured data the generators are run on: data flow nodes and edges and
\* architecture components, some with an empty id or name, a repeated id, a
\* type without a style of its own, an edge to a node that does not exist,
\* two ids that differ in a character an identifier cannot start with.
Node1 == [id |-> Some(<<"a","p","i">>), name |-> Some(<<"A","P","I"," ","(","v","2",")">>), type |-> <<"p","r","o","c","e","s","s">>]
Node2 == [id |-> Some(<<"1","d","b">>), name |-> Some(<<"S","t","o","r","e">>), type |-> <<"s","t","o","r","e">>]
Node3 == [id |-> Some(<<>>), name |-> Some(<<>>), type |-> <<"p","r","o","c","e","s","s">>]
Node4 == [id |-> Some(<<"a","p","i">>), name |-> Some(<<"Q","u","e","u","e">>), type |-> <<"q","u","e","u","e">>]
Node5 == [id |-> Some(<<"2","d","b">>), name |-> Some(<<"C","a","c","h","e">>), type |-> <<"s","t","o","r","e">>]

Edge1 == [from |-> Some(<<"a","p","i">>), to |-> Some(<<"1","d","b">>), label |-> Some(<<"s","a","v","e"," ","\"","i","t","\"">>), dataType |-> Null]
Edge2 == [from |-> Some(<<>>), to |-> Some(<<"a","p","i">>), label |-> Null, dataType |-> Some(<<"j","s","o","n">>)]
Edge3 == [from |-> Some(<<"a","p","i">>), to |-> Some(<<"g","o","n","e">>), label |-> Null, dataType |-> Null]
Edge4 == [from |-> Some(<<"1","d","b">>), to |-> Some(<<"2","d","b">>), label |-> Null, dataType |-> Null]

DataFlowInputs ==
    { [nodes |-> n, edges |-> e] :
        n \in { <<>>, <<Node1>>, <<Node3>>, <<Node1, Node2>>, <<Node1, Node3>>,
                <<Node2, Node1, Node4>>, <<Node2, Node5>> },
        e \in { <<>>, <<Edge1>>, <<Edge2>>, <<Edge1, Edge3>>, <<Edge1, Edge2>>, <<Edge4>> } }

Component1 ==
    [id |-> Some(<<"w","e","b">>), name |-> Some(<<"W","e","b"," ","<","U","I",">">>), type |-> <<"f","r","o","n","t","e","n","d">>,
     technologies |-> << <<"R","e","a","c","t">>, <<"N","e","x","t",".","j","s">>, <<"T","a","i","l","w","i","n","d">> >>,
     connections |-> << Some(<<"a","p","i">>), Some(<<"g","o","n","e">>) >>]
Component2 ==
    [id |-> Some(<<"a","p","i">>), name |-> Some(<<"A","P","I">>), type |-> <<"b","a","c","k","e","n","d">>,
     technologies |-> <<>>, connections |-> << Some(<<"w","e","b">>), Some(<<"a","p","i">>) >>]
Component3 ==
    [id |-> Some(<<>>), name |-> Null, type |-> <<"c","a","c","h","e">>,
     technologies |-> << <<"R","e","d","i","s">> >>, connections |-> << Some(<<"a","p","i">>) >>]

ArchitectureInputs ==
    { <<>>, <<Component1>>, <<Component3>>, <<Component1, Component2>>,
      <<Component2, Component1, Component3>> }

\* Diagrams as the generative backend may supply them: one the code accepts,
\* one that begins with a keyword in its own casing, one that begins with no
\* keyword, and one with empty text.
AiDiagrams ==
    { [type |-> "graph", title |-> "AI", code |-> c] :
        c \in { <<"g","r","a","p","h"," ","T","D","\n"," "," ","A","-","-",">","B">>, <<"s","e","q","u","e","n","c","e","D","i","a","g","r","a","m","\n"," "," ","A","-",">",">","B",":"," ","h","i">>,
                <<"d","i","g","r","a","p","h"," ","G"," ","{"," ","A"," ","-",">"," ","B"," ","}">>, <<>> } }

ProcessDiagramsInputs ==
    { [aiDiagrams |-> [architecture |-> a, dataFlow |-> d, components |-> c],
       architecture |-> arch, dataFlow |-> df] :
        a \in {Null} \cup { Some(x) : x \in AiDiagrams },
        d \in {Null} \cup { Some(x) : x \in AiDiagrams },
        c \in {Null} \cup { Some(x) : x \in AiDiagrams },
        arch \in { <<>>, <<Component1, Component2>> },
        df \in { [nodes |-> <<>>, edges |-> <<>>],
                 [nodes |-> <<Node1, Node2>>, edges |-> <<>>],
                 [nodes |-> <<Node1, Node2>>, edges |-> <<Edge1>>],
                 [nodes |-> <<Node3>>, edges |-> <<Edge2>>] } }

\* Props of the DataFlowDiagram component; the nodes carry the ids and names
\* the component's types require.
DataFlowDiagramProps ==
    { [mermaidDiagram |-> m, nodes |-> df.nodes, edges |-> df.edges] :
        m \in {Null} \cup { Some(x) : x \in AiDiagrams },
        df \in { [nodes |-> <<>>, edges |-> <<>>],
                 [nodes |-> <<Node1, Node2>>, edges |-> <<Edge1>>],
                 [nodes |-> <<Node2, Node1, Node4>>, edges |-> <<Edge1, Edge3>>] } }

GenerateDataFlowDiagram ==
    /\ fn = "generateDataFlowDiagram" /\ out1 = Null
    /\ \E s \in SafeIdChoices(input[1].nodes) :
           out1' = Some(generateDataFlowDiagram(input[1].nodes, input[1].edges, s))
    /\ UNCHANGED <<fn, input, out2, rlVars, scoreVars, postVars, hookVars, viewVars>>

\* The same nodes and edges are given to generateDataFlowDiagram once more.
GenerateDataFlowDiagramAgain ==
    /\ fn = "generateDataFlowDiagram" /\ out1 # Null /\ out2 = Null
    /\ \E s \in SafeIdChoices(input[1].nodes) :
           out2' = Some(generateDataFlowDiagram(input[1].nodes, input[1].edges, s))
    /\ UNCHANGED <<fn, input, out1, rlVars, scoreVars, postVars, hookVars, viewVars>>

GenerateSequenceDiagram ==
    /\ fn = "generateSequenceDiagram" /\ out1 = Null
    /\ \E s \in SafeIdChoices(input[1].nodes) :
           out1' = Some(generateSequenceDiagram(input[1].nodes, input[1].edges, s))
    /\ UNCHANGED <<fn, input, out2, rlVars, scoreVars, postVars, hookVars, viewVars>>

GenerateSequenceDiagramAgain ==
    /\ fn = "generateSequenceDiagram" /\ out1 # Null /\ out2 = Null
    /\ \E s \in SafeIdChoices(input[1].nodes) :
           out2' = Some(generateSequenceDiagram(input[1].nodes, input[1].edges, s))
    /\ UNCHANGED <<fn, input, out1, rlVars, scoreVars, postVars, hookVars, viewVars>>

GenerateArchitectureDiagram ==
    /\ fn = "generateArchitectureDiagram" /\ out1 = Null
    /\ \E s \in SafeIdChoices(input[1]), m \in SafeIdChoices(input[1]) :
           out1' = Some(generateArchitectureDiagram(input[1], s, m))
    /\ UNCHANGED <<fn, input, out2, rlVars, scoreVars, postVars, hookVars, viewVars>>

GenerateArchitectureDiagramAgain ==
    /\ fn = "generateArchitectureDiagram" /\ out1 # Null /\ out2 = Null
    /\ \E s \in SafeIdChoices(input[1]), m \in SafeIdChoices(input[1]) :
           out2' = Some(generateArchitectureDiagram(input[1], s, m))
    /\ UNCHANGED <<fn, input, out1, rlVars, scoreVars, postVars, hookVars, viewVars>>

\* The values the sanitizeId calls of one processDiagrams call can return.
ProcessDiagramsIds(in) ==
    { [architecture |-> a, idMap |-> m, dataFlow |-> d, components |-> c] :
        a \in SafeIdChoices(in.architecture), m \in SafeIdChoices(in.architecture),
        d \in SafeIdChoices(in.dataFlow.nodes), c \in SafeIdChoices(in.dataFlow.nodes) }

ProcessDiagrams ==
    /\ fn = "processDiagrams" /\ out1 = Null
    /\ \E ids \in ProcessDiagramsIds(input[1]) :
           out1' = Some(processDiagrams(input[1].aiDiagrams, input[1].architecture,
                                        input[1].dataFlow, ids))
    /\ UNCHANGED <<fn, input, out2, rlVars, scoreVars, postVars, hookVars, viewVars>>

\* The DataFlowDiagram component renders: useMemo computes the diagram.
DataFlowDiagramMemo ==
    /\ fn = "DataFlowDiagram" /\ out1 = Null
    /\ out1' = Some(DataFlowDiagram_diagram(input[1]))
    /\ UNCHANGED <<fn, input, out2, rlVars, scoreVars, postVars, hookVars, viewVars>>

\* The rendering effect of the component: nothing without a diagram, else
\* diagram.code goes to mermaid.render.  out2 holds the text handed over.
DataFlowDiagramRenderEffect ==
    /\ fn = "DataFlowDiagram" /\ out1 # Null /\ out2 = Null
    /\ out1[1] # Null
    /\ out2' = Some(out1[1][1].code)
    /\ UNCHANGED <<fn, input, out1, rlVars, scoreVars, postVars, hookVars, viewVars>>

(***************************************************************************)
(* Analysis request handler: POST                                          *)
(***************************************************************************)

\* const MAX_BODY_SIZE = 10 * 1024
MAX_BODY_SIZE == 10 * 1024

\* Request bodies by size: length is rawBody.length, the number of UTF-16 code
\* units of the decoded text, and bytes the number of bytes sent.  A body of
\* ASCII text has one byte per unit, a body of CJK text three.
Bodies ==
    { [length |-> p[1], bytes |-> p[1] * p[2]] :
        p \in { <<100, 1>>, <<MAX_BODY_SIZE, 1>>, <<MAX_BODY_SIZE + 1, 1>>,
                <<11 * 1024, 1>>, <<3755, 3>> } }

\* What the body text is, by how far it gets: text JSON.parse throws on, JSON
\* parseRequestBody rejects, a url validateAndParseUrl rejects, a good request.
BodyKinds == {"malformed", "badShape", "invalidRepo", "valid"}

\* Requests: the content-length header, when the request carries one, is the
\* number of body bytes (a request sent in chunks carries none).
\* The branch member of a valid body: left out, a branch name, or "".
RequestBranches == {Null, Some("dev"), Some("")}

Requests ==
    { req \in
        { [ip |-> ip, contentLength |-> IF declared THEN Some(b.bytes) ELSE Null,
           body |-> b, kind |-> k, branch |-> branch] :
            ip \in Clients, b \in Bodies, k \in BodyKinds, declared \in BOOLEAN,
            branch \in RequestBranches } :
        req.kind # "valid" => req.branch = Null }

\* Messages of the errors the collaborators throw.
InvalidMessages == {"Invalid GitHub URL"}
UpstreamMessages == {"Repository not found", "GitHub API rate limit exceeded", "fetch failed"}
BackendMessages == {"Invalid API key", "socket hang up"}

\* error.message.includes("not found") || includes("rate limit") || includes("Invalid")
isOperational(message) ==
    message \in {"Invalid GitHub URL", "Repository not found",
                 "GitHub API rate limit exceeded", "Invalid API key"}

\* Response.json({ error }, { status, headers })
ErrorResponse(code, error, retryAfter) ==
    [status |-> code, error |-> error, retryAfter |-> retryAfter, stream |-> Null]

\* The catch block of POST
Caught(message) ==
    ErrorResponse(500,
                  IF isOperational(message) THEN message
                  ELSE "Analysis failed. Please try again.",
                  Null)

\* CodeMetrics of the repositories the requests name.
BareRepoMetrics ==
    [ hasTests |-> FALSE, testFileCount |-> 0, hasCI |-> FALSE, ciProvider |-> Null,
      hasLinting |-> FALSE, hasTypeScript |-> TRUE, strictMode |-> FALSE,
      hasPrettier |-> FALSE, hasSecurityConfig |-> FALSE, hasEnvExample |-> FALSE,
      exposedSecrets |-> <<>>, hasChangelog |-> FALSE, hasContributing |-> FALSE,
      hasLicense |-> TRUE, readmeQuality |-> <<"b","a","s","i","c">>,
      dependencyCount |-> 0, devDependencyCount |-> 0, vulnerablePatterns |-> <<>>,
      largeFiles |-> <<>>,
      codePatterns |-> [hasErrorHandling |-> FALSE, hasLogging |-> FALSE,
                        hasValidation |-> FALSE],
      missingEssentials |-> <<>>, existingAutomations |-> <<>> ]

RepoMetrics ==
    { BareRepoMetrics,
      [BareRepoMetrics EXCEPT !.strictMode = TRUE, !.hasLinting = TRUE] }

\* POST up to its first await: the configuration and rate-limit checks and the
\* check of the declared content-length.
PostReceive(req) ==
    /\ pc = "idle"
    /\ request = Null
    /\ request' = Some(req)
    /\ mapBefore' = rateLimitMap
    /\ deterministic' = Null
    /\ fetches' = Null
    /\ IF ~configured
       THEN /\ response' = Some(ErrorResponse(503, "Server is not properly configured.", Null))
            /\ steps' = <<>>
            /\ pc' = "idle"
            /\ UNCHANGED <<rateLimitMap, cleanupInterval>>
       ELSE LET rateLimit == checkRateLimit(rateLimitMap, req.ip, now)
            IN  /\ rateLimitMap' = rateLimit.map
                /\ cleanupInterval' = ensureCleanupRunning(cleanupInterval)
                /\ IF ~rateLimit.result.allowed
                   THEN /\ response' = Some(ErrorResponse(429,
                                "Too many requests. Please try again later.", Some("60")))
                        /\ steps' = <<"checkRateLimit">>
                        /\ pc' = "idle"
                   ELSE IF req.contentLength # Null /\ req.contentLength[1] > MAX_BODY_SIZE
                   THEN /\ response' = Some(ErrorResponse(413, "Request body too large", Null))
                        /\ steps' = <<"checkRateLimit">>
                        /\ pc' = "idle"
                   ELSE /\ response' = Null
                        /\ steps' = <<"checkRateLimit", "request.text">>
                        /\ pc' = "request.text"
    /\ UNCHANGED <<configured, now, calls, scoreVars, codecVars, hookVars, viewVars>>

\* request.text() has resolved: the check of the body read, JSON.parse,
\* parseRequestBody, validateAndParseUrl, getOpenRouterClient, and the call of
\* fetchRepoMetadata.
PostBody ==
    /\ pc = "request.text"
    /\ LET req == request[1]
       IN  IF req.body.length > MAX_BODY_SIZE
           THEN /\ response' = Some(ErrorResponse(413, "Request body too large", Null))
                /\ pc' = "idle"
                /\ UNCHANGED steps
           ELSE IF req.kind = "malformed"
           THEN /\ response' = Some(ErrorResponse(400, "Invalid JSON in request body", Null))
                /\ pc' = "idle"
                /\ steps' = steps \o <<"JSON.parse">>
           ELSE IF req.kind = "badShape"
           THEN /\ \E message \in InvalidMessages \cup {"url is required"} :
                       response' = Some(Caught(message))
                /\ pc' = "idle"
                /\ steps' = steps \o <<"JSON.parse", "parseRequestBody">>
           ELSE IF req.kind = "invalidRepo"
           THEN /\ \E message \in InvalidMessages : response' = Some(Caught(message))
                /\ pc' = "idle"
                /\ steps' = steps \o <<"JSON.parse", "parseRequestBody", "validateAndParseUrl">>
           ELSE /\ response' = Null
                /\ pc' = "fetchRepoMetadata"
                /\ steps' = steps \o <<"JSON.parse", "parseRequestBody", "validateAndParseUrl",
                                       "getOpenRouterClient", "fetchRepoMetadata">>
    /\ UNCHANGED <<request, mapBefore, deterministic, fetches, configured, rlVars, scoreVars,
                   codecVars, hookVars, viewVars>>

\* The default branch of the repository, from its metadata.
DefaultBranches == {"main", "trunk"}

\* parsedBody.branch || metadata.defaultBranch
TargetBranch(branch, defaultBranch) ==
    IF branch = Null \/ branch[1] = "" THEN defaultBranch ELSE branch[1]

\* fetchRepoMetadata has settled: on success the target branch is resolved
\* and the three fetches of Promise.all are called, one after the other
\* without an await between them.
PostMetadata ==
    /\ pc = "fetchRepoMetadata"
    /\ \/ /\ \E message \in UpstreamMessages : response' = Some(Caught(message))
          /\ pc' = "idle"
          /\ steps' = steps \o <<"fetchRepoMetadata rejected">>
          /\ UNCHANGED fetches
       \/ /\ \E defaultBranch \in DefaultBranches :
                LET targetBranch == TargetBranch(request[1].branch, defaultBranch)
                IN  fetches' = Some([defaultBranch |-> defaultBranch,
                                     targetBranch |-> targetBranch,
                                     fetchRepoTree |-> targetBranch,
                                     fetchImportantFiles |-> targetBranch,
                                     fetchRepoBranches |-> defaultBranch])
          /\ response' = Null
          /\ pc' = "Promise.all"
          /\ steps' = steps \o <<"fetchRepoTree", "fetchImportantFiles", "fetchRepoBranches">>
    /\ UNCHANGED <<request, mapBefore, deterministic, configured, rlVars, scoreVars, codecVars,
                   hookVars, viewVars>>

\* The step recorded for a fetch that rejected.
Rejected(fetch) ==
    CASE fetch = "fetchRepoTree" -> "fetchRepoTree rejected"
      [] fetch = "fetchImportantFiles" -> "fetchImportantFiles rejected"
      [] fetch = "fetchRepoBranches" -> "fetchRepoBranches rejected"

\* What follows Promise.all when it fulfils: the metrics, scores, suggestions
\* and prompt are computed and streamText is called.
Computed ==
    /\ \E codeMetrics \in RepoMetrics :
           deterministic' = Some([metadata |-> "metadata", tree |-> "tree",
                                  metrics |-> codeMetrics,
                                  scores |-> calculateScores(codeMetrics)])
    /\ response' = Null
    /\ pc' = "streamText"

\* Promise.all, were a failed fetchRepoBranches to be let through.
PostParallel_BranchesOptional ==
    /\ pc = "Promise.all"
    /\ \/ /\ \E fetch \in {"fetchRepoTree", "fetchImportantFiles"}, message \in UpstreamMessages :
                 /\ response' = Some(Caught(message))
                 /\ steps' = steps \o <<Rejected(fetch)>>
          /\ pc' = "idle"
          /\ UNCHANGED deterministic
       \/ /\ Computed
          /\ \E settled \in {<<>>, <<Rejected("fetchRepoBranches")>>} :
                 steps' = steps \o settled
                              \o <<"analyzeCodeMetrics", "calculateScores", "generateAutomations",
                                   "generateRefactors", "calculateFileStats",
                                   "createCompactTreeString", "prepareFilesContent",
                                   "buildPrompt", "streamText">>
    /\ UNCHANGED <<request, mapBefore, fetches, configured, rlVars, scoreVars, codecVars,
                   hookVars, viewVars>>

\* Promise.all has settled: it rejects as soon as one of the three fetches
\* does, and what that fetch threw goes to the catch block; when all three
\* fulfil, the metrics, scores, suggestions and prompt are computed and
\* streamText is called.
PostParallel ==
    /\ pc = "Promise.all"
    /\ \/ /\ \E fetch \in {"fetchRepoTree", "fetchImportantFiles", "fetchRepoBranches"},
                message \in UpstreamMessages :
                 /\ response' = Some(Caught(message))
                 /\ steps' = steps \o <<Rejected(fetch)>>
          /\ pc' = "idle"
          /\ UNCHANGED deterministic
       \/ /\ Computed
          /\ steps' = steps \o <<"analyzeCodeMetrics", "calculateScores", "generateAutomations",
                                 "generateRefactors", "calculateFileStats",
                                 "createCompactTreeString", "prepareFilesContent",
                                 "buildPrompt", "streamText">>
    /\ UNCHANGED <<request, mapBefore, fetches, configured, rlVars, scoreVars, codecVars,
                   hookVars, viewVars>>

\* streamText has settled: its result goes to createAnalysisStream and the
\* stream is the response, or what it threw goes to the catch block.  The text
\* stream of a result may still fail while the response is being read.
PostStreamText ==
    /\ pc = "streamText"
    /\ \/ \E message \in BackendMessages : response' = Some(Caught(message))
       \/ \E textStream \in {"completes", "fails"} :
              response' = Some([status |-> 200, error |-> "", retryAfter |-> Null,
                                stream |-> Some([metadata |-> deterministic[1].metadata,
                                                 tree |-> deterministic[1].tree,
                                                 textStream |-> textStream,
                                                 scores |-> deterministic[1].scores,
                                                 metrics |-> deterministic[1].metrics])])
    /\ pc' = "idle"
    /\ UNCHANGED <<request, steps, mapBefore, deterministic, fetches, configured, rlVars,
                   scoreVars, codecVars, hookVars, viewVars>>

\* The response has been sent and the request is over.
PostSent ==
    /\ request # Null /\ pc = "idle"
    /\ request' = Null /\ steps' = <<>> /\ response' = Null
    /\ mapBefore' = EmptyMap /\ deterministic' = Null /\ fetches' = Null
    /\ UNCHANGED <<pc, configured, rlVars, scoreVars, codecVars, hookVars, viewVars>>

(***************************************************************************)
(* Consumer: useAnalysis and the client result cache                       *)
(***************************************************************************)

\* The retention window of the cache (seven days), in ticks of the clock.
TTL_DAYS == 3

MaxAnalyze == 2
MaxContent == 3

\* { ...a, ...b }
Spread(a, b) == b @@ a

\* extractRepoFullName(url) on the urls the calls use: a GitHub url, and text
\* that matches neither pattern.
Urls == {"https://github.com/acme/app", "acme"}
extractRepoFullName(url) ==
    CASE url = "https://github.com/acme/app" -> Some("acme/app")
      [] OTHER -> Null

\* Branch arguments: left out, or a branch name.
Branches == {Null, Some("dev")}
DefaultBranch == "main"

\* analysisStorage: records keyed by (repoFullName, branch or absent), each
\* with the time it was written.
CacheKey(repoFullName, branch) == <<repoFullName, branch>>
EmptyCache == [k \in {} |-> [data |-> <<>>, timestamp |-> 0]]
StorageGet(store, repoFullName, branch, t) ==
    LET key == CacheKey(repoFullName, branch)
    IN  IF key \in DOMAIN store /\ t - store[key].timestamp < TTL_DAYS
        THEN Some(store[key].data)
        ELSE Null
StorageSet(store, repoFullName, data, branch, t) ==
    LET key == CacheKey(repoFullName, branch)
    IN  [k \in (DOMAIN store) \cup {key} |->
            IF k = key THEN [data |-> data, timestamp |-> t] ELSE store[k]]

\* A member of a JSON object that names a deterministic field of the result.
BranchMember == "\"branch\":\"gh-pages\""

\* The pieces of the narrative text: braces, a character of prose, and a
\* member as the generative backend may write it.
ContentAlphabet == {"{", "}", "x", BranchMember}

\* aiContent.match(/\{[\s\S]*\}/): from the first "{" to the last "}".
JsonMatch(text) ==
    LET opens == { i \in 1..Len(text) : text[i] = "{" }
        first == CHOOSE i \in opens : \A j \in opens : i <= j
        closes == { i \in 1..Len(text) : text[i] = "}" /\ i > first }
        last == CHOOSE i \in closes : \A j \in closes : j <= i
    IN  IF opens = {} THEN Null
        ELSE IF closes = {} THEN Null
        ELSE Some(SubSeq(text, first, last))

\* JSON.parse on the texts over ContentAlphabet: the JSON values among them
\* are the object {} and the object with the one member; on any other text
\* it throws (Null).
JsonParse(text) ==
    IF text = <<"{", "}">> THEN Some(<< >>)
    ELSE IF text = <<"{", BranchMember, "}">> THEN Some([branch |-> Some("gh-pages")])
    ELSE Null

\* analysisData.field, undefined (Null) when the object has no such member
Member(object, field) == IF field \in DOMAIN object THEN object[field] ELSE Null

\* a || b
Or(a, b) == IF a = Null THEN b ELSE a

\* The data of the metadata frame the server sends for a request.
MetadataFrame(repoFullName, branch) ==
    [metadata |-> Some([fullName |-> repoFullName]),
     fileTree |-> Some(<<"README.md">>),
     fileStats |-> Some([totalFiles |-> 1]),
     branch |-> Some(IF branch = Null THEN DefaultBranch ELSE branch[1]),
     availableBranches |-> Some(<<"main", "dev">>)]

\* finalResult of the done frame
finalResult(currentResult, analysisData) ==
    Spread(Spread(currentResult, analysisData),
           [summary |-> Or(Member(analysisData, "summary"), Some("")),
            insights |-> Or(Member(analysisData, "insights"), Some(<<>>)),
            scores |-> Member(analysisData, "scores"),
            refactors |-> Or(Member(analysisData, "refactors"), Some(<<>>)),
            automations |-> Or(Member(analysisData, "automations"), Some(<<>>)),
            architecture |-> Or(Member(analysisData, "architecture"), Some(<<>>)),
            dataFlow |-> Or(Member(analysisData, "dataFlow"),
                            Some([nodes |-> <<>>, edges |-> <<>>])),
            techStack |-> Or(Member(analysisData, "techStack"), Some(<<>>)),
            whatItDoes |-> Or(Member(analysisData, "whatItDoes"), Some("")),
            targetAudience |-> Or(Member(analysisData, "targetAudience"), Some("")),
            howToRun |-> Or(Member(analysisData, "howToRun"), Some(<<>>)),
            keyFolders |-> Or(Member(analysisData, "keyFolders"), Some(<<>>)),
            diagrams |-> Or(Member(analysisData, "diagrams"), Null)])

\* fallbackResult of the done frame
fallbackResult(currentResult) ==
    Spread(currentResult,
           [summary |-> Some("Analysis completed with parsing issues."),
            insights |-> Some(<<>>),
            refactors |-> Some(<<>>),
            automations |-> Some(<<>>),
            architecture |-> Some(<<>>),
            dataFlow |-> Some([nodes |-> <<>>, edges |-> <<>>])])

\* updateResult(partial) of the analysis context
updateResult(prev, partial) == Some(Spread(IF prev = Null THEN << >> ELSE prev[1], partial))

\* currentResult.metadata?.fullName
FullNameOf(currentResult) ==
    IF "metadata" \in DOMAIN currentResult /\ currentResult.metadata # Null
    THEN Some(currentResult.metadata[1].fullName)
    ELSE Null

\* The handling of the done frame: what becomes of the shown result and of the
\* cache.
DoneFrame(currentResult, aiContent, shown, store, t) ==
    LET jsonMatch == JsonMatch(aiContent)
        analysisData == IF jsonMatch = Null THEN Null ELSE JsonParse(jsonMatch[1])
        written == IF jsonMatch = Null THEN Null
                   ELSE IF analysisData # Null
                   THEN Some(finalResult(currentResult, analysisData[1]))
                   ELSE Some(fallbackResult(currentResult))
        fullName == FullNameOf(currentResult)
    IN  IF written = Null THEN [result |-> shown, cache |-> store]
        ELSE [result |-> updateResult(shown, written[1]),
              cache |-> IF fullName # Null
                        THEN StorageSet(store, fullName[1], written[1],
                                        Member(currentResult, "branch"), t)
                        ELSE store]

\* A finished analyze call, for the record of calls.
Finished(call, stage, shown, fetched) ==
    [url |-> call.url, branch |-> call.branch, skipCache |-> call.skipCache,
     at |-> now, stage |-> stage, result |-> shown, fetched |-> fetched]

\* analyze(url, branch, skipCache) up to its first await: the url check, the
\* cache check, and the call of fetch.
Analyze(url, branch, skipCache) ==
    /\ analyzing = Null
    /\ Len(history) < MaxAnalyze
    /\ LET repoFullName == extractRepoFullName(url)
           call == [url |-> url, branch |-> branch, skipCache |-> skipCache]
           cached == IF repoFullName = Null \/ skipCache THEN Null
                     ELSE StorageGet(cache, repoFullName[1], branch, now)
       IN  IF repoFullName = Null
           THEN /\ status' = "error"
                /\ history' = Append(history, Finished(call, "error", result, FALSE))
                /\ UNCHANGED <<analyzing, result, isCached>>
           ELSE IF cached # Null
           THEN /\ result' = cached
                /\ isCached' = TRUE
                /\ status' = "complete"
                /\ history' = Append(history, Finished(call, "complete", cached, FALSE))
                /\ UNCHANGED analyzing
           ELSE /\ isCached' = FALSE
                /\ status' = "fetching"
                /\ result' = Null
                /\ analyzing' = Some([url |-> url, branch |-> branch, skipCache |-> skipCache,
                                      repoFullName |-> repoFullName[1],
                                      pc |-> "fetch", aiContent |-> <<>>,
                                      currentResult |-> << >>])
                /\ UNCHANGED history
    /\ UNCHANGED <<cache, rlVars, scoreVars, codecVars, postVars, viewVars>>

\* The call returns: analyze is over, with the status it has set.
Return(stage) ==
    /\ status' = stage
    /\ history' = Append(history, Finished(analyzing[1], stage, result, TRUE))
    /\ analyzing' = Null

\* fetch has settled: a response that is not ok, or a failed fetch, goes to the
\* catch block; an ok response is read.
FetchSettled ==
    /\ analyzing # Null /\ analyzing[1].pc = "fetch"
    /\ \/ /\ Return("error")
       \/ /\ status' = "fetching"
          /\ analyzing' = Some([analyzing[1] EXCEPT !.pc = "metadata"])
          /\ UNCHANGED history
    /\ UNCHANGED <<cache, result, isCached, rlVars, scoreVars, codecVars, postVars, viewVars>>

\* The metadata frame is read.
ReadMetadataFrame ==
    /\ analyzing # Null /\ analyzing[1].pc = "metadata"
    /\ LET currentResult == MetadataFrame(analyzing[1].repoFullName, analyzing[1].branch)
       IN  /\ analyzing' = Some([analyzing[1] EXCEPT !.pc = "content",
                                                     !.currentResult = currentResult])
           /\ result' = updateResult(result, currentResult)
    /\ status' = "analyzing"
    /\ UNCHANGED <<cache, isCached, history, rlVars, scoreVars, codecVars, postVars, viewVars>>

\* A content frame is read.
ReadContentFrame(data) ==
    /\ analyzing # Null /\ analyzing[1].pc = "content"
    /\ Len(analyzing[1].aiContent) < MaxContent
    /\ analyzing' = Some([analyzing[1] EXCEPT !.aiContent = @ \o data])
    /\ status' = "analyzing"
    /\ UNCHANGED <<cache, result, isCached, history, rlVars, scoreVars, codecVars, postVars, viewVars>>

\* An error frame is read: the Error thrown for it is caught by the catch
\* around the handling of the line, which logs it.
ReadErrorFrame ==
    /\ analyzing # Null /\ analyzing[1].pc = "content"
    /\ analyzing' = Some([analyzing[1] EXCEPT !.pc = "failed"])
    /\ UNCHANGED <<cache, status, result, isCached, history, rlVars, scoreVars, codecVars, postVars, viewVars>>

\* The done frame is read.
ReadDoneFrame ==
    /\ analyzing # Null /\ analyzing[1].pc = "content"
    /\ LET done == DoneFrame(analyzing[1].currentResult, analyzing[1].aiContent,
                             result, cache, now)
       IN  /\ result' = done.result
           /\ cache' = done.cache
    /\ status' = "complete"
    /\ analyzing' = Some([analyzing[1] EXCEPT !.pc = "done"])
    /\ UNCHANGED <<isCached, history, rlVars, scoreVars, codecVars, postVars, viewVars>>

\* reader.read() reports the end of the stream, or fails.
StreamEnd ==
    /\ analyzing # Null /\ analyzing[1].pc \in {"metadata", "content", "done", "failed"}
    /\ \/ Return(status)
       \/ Return("error")
    /\ UNCHANGED <<cache, result, isCached, rlVars, scoreVars, codecVars, postVars, viewVars>>

\* Time passes between two analyze calls.
Wait ==
    /\ analyzing = Null
    /\ now < MaxTime
    /\ now' = now + 1
    /\ UNCHANGED <<rateLimitMap, cleanupInterval, calls, scoreVars, codecVars, postVars, hookVars, viewVars>>

(***************************************************************************)
(* Recent analyses: the external store of recent-analyses.tsx              *)
(***************************************************************************)

\* const EXPIRY_DAYS = 7, the clock counting days
EXPIRY_DAYS == 7

\* The listeners React subscribes, one for each mounted RecentAnalyses.
Listeners == {"l1", "l2"}

\* analysisStorage.remove(repoFullName, branch)
StorageRemove(store, repoFullName, branch) ==
    [k \in (DOMAIN store) \ {CacheKey(repoFullName, branch)} |-> store[k]]

\* analysisStorage.getRecent(n): the stored records, most recent first, at
\* most n of them.
RECURSIVE getRecent(_, _)
getRecent(store, n) ==
    IF n = 0 \/ DOMAIN store = {} THEN <<>>
    ELSE LET k == CHOOSE k \in DOMAIN store :
                      \A j \in DOMAIN store : store[j].timestamp <= store[k].timestamp
         IN  <<[repoFullName |-> k[1], branch |-> k[2], data |-> store[k].data,
                timestamp |-> store[k].timestamp]>>
             \o getRecent([j \in (DOMAIN store) \ {k} |-> store[j]], n - 1)

\* calculateDaysUntilExpiry(timestamp, now)
calculateDaysUntilExpiry(timestamp, t) == Max(0, (timestamp + EXPIRY_DAYS) - t)

\* calculateIsExpiringSoon(timestamp, now)
calculateIsExpiringSoon(timestamp, t) == calculateDaysUntilExpiry(timestamp, t) <= 2

\* processHistory(rawHistory, now)
processHistory(rawHistory, t) ==
    [i \in 1..Len(rawHistory) |->
        [repoFullName |-> rawHistory[i].repoFullName, branch |-> rawHistory[i].branch,
         data |-> rawHistory[i].data, timestamp |-> rawHistory[i].timestamp,
         daysUntilExpiry |-> calculateDaysUntilExpiry(rawHistory[i].timestamp, t),
         isExpiringSoon |-> calculateIsExpiringSoon(rawHistory[i].timestamp, t)]]

\* getSnapshot(): the memoised history, computed when there is none
getSnapshot(memo, store, t) ==
    IF memo = Null THEN processHistory(getRecent(store, 10), t) ELSE memo[1]

\* notifyListeners(): the memo is dropped and every listener is called; a
\* listener of useSyncExternalStore reads the snapshot again.
notifyListeners(subscribed, store, t) ==
    [cachedHistory |-> IF subscribed = {} THEN Null
                       ELSE Some(getSnapshot(Null, store, t)),
     notified |-> subscribed]

\* subscribe(listener)
Subscribe(listener) ==
    /\ listener \notin listeners
    /\ listeners' = listeners \cup {listener}
    /\ notified' = {} /\ lastOp' = ""
    /\ UNCHANGED <<cachedHistory, other, rlVars, scoreVars, codecVars, postVars, hookVars>>

\* The function subscribe returned is called.
Unsubscribe(listener) ==
    /\ listener \in listeners
    /\ listeners' = listeners \ {listener}
    /\ notified' = {} /\ lastOp' = ""
    /\ UNCHANGED <<cachedHistory, other, rlVars, scoreVars, codecVars, postVars, hookVars>>

\* A render of RecentAnalyses reads the snapshot.
GetSnapshot ==
    /\ listeners # {}
    /\ cachedHistory = Null
    /\ cachedHistory' = Some(getSnapshot(cachedHistory, cache, now))
    /\ UNCHANGED <<listeners, notified, lastOp, other, rlVars, scoreVars, codecVars,
                   postVars, hookVars>>

\* removeFromHistory(repoFullName, branch), for an entry the component shows
RemoveFromHistory(entry) ==
    /\ cachedHistory # Null
    /\ entry \in 1..Len(cachedHistory[1])
    /\ LET item == cachedHistory[1][entry]
           store == StorageRemove(cache, item.repoFullName, item.branch)
           told == notifyListeners(listeners, store, now)
       IN  /\ cache' = store
           /\ cachedHistory' = told.cachedHistory
           /\ notified' = told.notified
    /\ lastOp' = "remove"
    /\ UNCHANGED <<listeners, other, analyzing, status, result, isCached, history,
                   rlVars, scoreVars, codecVars, postVars>>

\* clearAllHistory()
ClearAllHistory ==
    /\ LET told == notifyListeners(listeners, EmptyCache, now)
       IN  /\ cache' = EmptyCache
           /\ cachedHistory' = told.cachedHistory
           /\ notified' = told.notified
    /\ lastOp' = "clearAll"
    /\ UNCHANGED <<listeners, other, analyzing, status, result, isCached, history,
                   rlVars, scoreVars, codecVars, postVars>>

\* analyze(url, branch, true) running from its start to the done frame of a
\* stream whose narrative is the text {}: the result is shown and stored.
AnalyzeCompletes(url, branch) ==
    /\ analyzing = Null
    /\ extractRepoFullName(url) # Null
    /\ LET currentResult == MetadataFrame(extractRepoFullName(url)[1], branch)
           done == DoneFrame(currentResult, <<"{","}">>, Some(currentResult), cache, now)
       IN  /\ result' = done.result
           /\ cache' = done.cache
    /\ status' = "complete"
    /\ isCached' = FALSE
    /\ notified' = {} /\ lastOp' = "set"
    /\ UNCHANGED <<listeners, cachedHistory, other, analyzing, history,
                   rlVars, scoreVars, codecVars, postVars>>

\* clearCache() of the hook, for the repository and branch it holds
ClearCache(url, branch) ==
    /\ extractRepoFullName(url) # Null
    /\ cache' = StorageRemove(cache, extractRepoFullName(url)[1], branch)
    /\ isCached' = FALSE
    /\ notified' = {} /\ lastOp' = "remove"
    /\ UNCHANGED <<listeners, cachedHistory, other, analyzing, status, result, history,
                   rlVars, scoreVars, codecVars, postVars>>

(***************************************************************************)
(* Consumer: the read loop of analyze                                      *)
(***************************************************************************)

MaxChunks == 3

\* decoder.decode(value, { stream: true }) on the bytes not yet decoded: the
\* two bytes C3 A9 are the character U+00E9 (E9), a byte below 80 is its own
\* character,
\* and a byte sequence that is not UTF-8 becomes U+FFFD ("?").  A lead byte at
\* the very end is held back for the next call.
RECURSIVE DecodeBytes(_)
DecodeBytes(bytes) ==
    IF bytes = <<>> THEN <<>>
    ELSE IF bytes[1] = "C3"
    THEN IF Len(bytes) = 1 THEN <<>>
         ELSE IF bytes[2] = "A9" THEN <<"E9">> \o DecodeBytes(SubSeq(bytes, 3, Len(bytes)))
         ELSE <<"?">> \o DecodeBytes(Tail(bytes))
    ELSE IF bytes[1] = "A9" THEN <<"?">> \o DecodeBytes(Tail(bytes))
    ELSE <<bytes[1]>> \o DecodeBytes(Tail(bytes))

HeldBytes(bytes) ==
    IF bytes # <<>> /\ bytes[Len(bytes)] = "C3" THEN <<"C3">> ELSE <<>>

\* text.split("\n\n")
RECURSIVE SplitRecords(_)
SplitRecords(text) ==
    LET seps == { i \in 1..(Len(text) - 1) : text[i] = "\n" /\ text[i + 1] = "\n" }
        first == CHOOSE i \in seps : \A j \in seps : i <= j
    IN  IF seps = {} THEN <<text>>
        ELSE <<SubSeq(text, 1, first - 1)>>
             \o SplitRecords(SubSeq(text, first + 2, Len(text)))

\* The payloads of the lines the loop body handles: those that start with
\* "data: ", cut after it (line.slice(6)).
RECURSIVE DataLines(_)
DataLines(lines) ==
    IF lines = <<>> THEN <<>>
    ELSE (IF StartsWith(lines[1], <<"d","a","t","a",":"," ">>)
          THEN <<SubSeq(lines[1], 7, Len(lines[1]))>> ELSE <<>>)
         \o DataLines(Tail(lines))

\* The locals of the read loop before the first read.
NewReader == [buffer |-> <<>>, held |-> <<>>, frames |-> <<>>, reads |-> 0, done |-> FALSE]

\* The loop with a buffer that forgets the piece after the last separator.
ReadChunk_BufferDropped(reader, value) ==
    LET bytes == reader.held \o value
        buffer == DecodeBytes(bytes)
        lines == SplitRecords(buffer)
    IN  [buffer |-> lines[Len(lines)],
         held |-> HeldBytes(bytes),
         frames |-> reader.frames \o DataLines(SubSeq(lines, 1, Len(lines) - 1)),
         reads |-> reader.reads + 1,
         done |-> FALSE]

\* One turn of the loop for a chunk: decode, append to the buffer, split, keep
\* the last piece as the new buffer, handle the lines before it.
ReadChunk(reader, value) ==
    LET bytes == reader.held \o value
        buffer == reader.buffer \o DecodeBytes(bytes)
        lines == SplitRecords(buffer)
    IN  [buffer |-> lines[Len(lines)],
         held |-> HeldBytes(bytes),
         frames |-> reader.frames \o DataLines(SubSeq(lines, 1, Len(lines) - 1)),
         reads |-> reader.reads + 1,
         done |-> FALSE]

\* The bytes of the response streams read.
StreamTexts ==
    { <<"d","a","t","a",":"," ","1","\n","\n","d","a","t","a",":"," ","2","\n","\n">>,
      <<"d","a","t","a",":"," ">> \o <<"C3", "A9">> \o <<"\n","\n",":"," ","k","\n","\n","d","a","t","a",":"," ","2","\n","\n">>,
      <<"d","a","t","a",":"," ","1","\n","\n","\n","d","a","t","a",":"," ","2","\n","\n","d","a","t","a",":"," ","3">>,
      <<"d","a","t","a",":"," ","1","\n","\n","\n","\n","d","a","t","a",":"," ","2","\n","\n">>,
      <<"x","\n","\n","d","a","t","a",":"," ">> \o <<"C3", "A9">> \o <<"1","\n","\n">> }

\* The ways a stream arrives: its bytes cut into at most MaxChunks chunks,
\* none of them empty.
RECURSIVE Chunks(_, _)
Chunks(bytes, cuts) ==
    IF cuts = {} THEN <<bytes>>
    ELSE LET cut == CHOOSE i \in cuts : \A j \in cuts : i <= j
         IN  <<SubSeq(bytes, 1, cut)>>
             \o Chunks(SubSeq(bytes, cut + 1, Len(bytes)), { j - cut : j \in cuts \ {cut} })

RECURSIVE CutSets(_, _)
CutSets(n, k) ==
    IF k = 0 THEN {{}}
    ELSE LET fewer == CutSets(n, k - 1)
         IN  fewer \cup { cuts \cup {i} : cuts \in fewer, i \in 1..(n - 1) }

ReaderInputs ==
    UNION { { Chunks(text, cuts) : cuts \in CutSets(Len(text), MaxChunks - 1) } :
              text \in StreamTexts }

\* reader.read() resolves with the next chunk.
ReaderRead ==
    /\ fn = "reader.read" /\ out1 # Null /\ ~out1[1].done
    /\ out1[1].reads < Len(input[1])
    /\ out1' = Some(ReadChunk(out1[1], input[1][out1[1].reads + 1]))
    /\ UNCHANGED <<fn, input, out2, rlVars, scoreVars, postVars, hookVars, viewVars>>

\* reader.read() resolves with done: the loop is left.
ReaderDone ==
    /\ fn = "reader.read" /\ out1 # Null /\ ~out1[1].done
    /\ out1[1].reads = Len(input[1])
    /\ out1' = Some([out1[1] EXCEPT !.done = TRUE])
    /\ UNCHANGED <<fn, input, out2, rlVars, scoreVars, postVars, hookVars, viewVars>>

(***************************************************************************)
(* Prompt assembler: prepareFilesContent                                   *)
(***************************************************************************)

MaxFileCount == 3
MaxContentLen == 4

\* Array.prototype.slice(0, n) for n >= 0
SliceItems(items, n) == SubSeq(items, 1, Min(n, Len(items)))

\* The three backticks of a code fence, the character named by its code point.
Fence == <<"U+0060", "U+0060", "U+0060">>

\* The entry of one file: a heading with its name, then its content cut to
\* maxContentLength characters (content.slice(0, maxContentLength)) in a
\* code fence.  First the entry as it would be without the cut.
FileEntry_Untruncated(entry, maxContentLength) ==
    <<"#","#","#"," ">> \o entry.file \o (<<"\n">> \o Fence \o <<"\n">>) \o entry.content \o (<<"\n">> \o Fence)

\* The entry of map() in prepareFilesContent
FileEntry(entry, maxContentLength) ==
    <<"#","#","#"," ">> \o entry.file \o (<<"\n">> \o Fence \o <<"\n">>) \o Slice(entry.content, maxContentLength) \o (<<"\n">> \o Fence)

\* prepareFilesContent(importantFiles, maxFiles, maxContentLength), the files
\* in the order of Object.entries
prepareFilesContent(importantFiles, maxFiles, maxContentLength) ==
    LET entries == SliceItems(importantFiles, maxFiles)
    IN  Join([i \in 1..Len(entries) |-> FileEntry(entries[i], maxContentLength)], <<"\n","\n">>)

\* File names f, ff, fff, ... and contents of each length up to MaxContentLen,
\* written in the letters a and b.
FileName(i) == [k \in 1..i |-> "f"]
FileContent(n) == [k \in 1..n |-> IF k % 2 = 1 THEN "a" ELSE "b"]

ImportantFiles ==
    UNION { { [i \in 1..count |-> [file |-> FileName(i), content |-> FileContent(sizes[i])]] :
                sizes \in [1..count -> 0..MaxContentLen] } :
              count \in 0..MaxFileCount }

PrepareFilesContentInputs ==
    { [importantFiles |-> files, maxFiles |-> maxFiles, maxContentLength |-> maxContentLength] :
        files \in ImportantFiles, maxFiles \in 0..(MaxFileCount + 1),
        maxContentLength \in 0..(MaxContentLen + 1) }

PrepareFilesContent ==
    /\ fn = "prepareFilesContent" /\ out1 = Null
    /\ out1' = Some(prepareFilesContent(input[1].importantFiles, input[1].maxFiles,
                                        input[1].maxContentLength))
    /\ UNCHANGED <<fn, input, out2, rlVars, scoreVars, postVars, hookVars, viewVars>>

(***************************************************************************)
(* Metrics analyzer: the package.json and tsconfig.json analysis of        *)
(* analyzeCodeMetrics                                                      *)
(***************************************************************************)

\* RegExp.prototype.test for a pattern that is plain text
Contains(text, pattern) ==
    \E i \in 1..(Len(text) - Len(pattern) + 1) :
        SubSeq(text, i, i + Len(pattern) - 1) = pattern

\* The texts of package.json the repositories hold: three that are JSON, and
\* three that are not (a trailing comma, a cut-off text, prose).
PkgTidy == <<"{","\"","d","e","p","e","n","d","e","n","c","i","e","s","\"",":","{","\"","r","e","a","c","t","\"",":","\"","1","8","\"","}",",","\"","d","e","v","D","e","p","e","n","d","e","n","c","i","e","s","\"",":","{","\"","e","s","l","i","n","t","\"",":","\"","9","\"",",","\"","p","r","e","t","t","i","e","r","\"",":","\"","3","\"","}","}">>
PkgDated == <<"{","\"","d","e","p","e","n","d","e","n","c","i","e","s","\"",":","{","\"","m","o","m","e","n","t","\"",":","\"","2","\"",",","\"","r","e","q","u","e","s","t","\"",":","\"","2","\"","}","}">>
PkgBare == <<"{","\"","n","a","m","e","\"",":","\"","a","p","p","\"","}">>
PkgTrailingComma == <<"{","\"","d","e","p","e","n","d","e","n","c","i","e","s","\"",":","{","\"","m","o","m","e","n","t","\"",":","\"","2","\"",",","}","}">>
PkgCutOff == <<"{","\"","d","e","v","D","e","p","e","n","d","e","n","c","i","e","s","\"",":","{","\"","e","s","l","i","n","t","\"",":","\"","9","\"",",","\"","p","r","e","t","t","i","e","r","\"",":","\"","3","\"">>
PkgProse == <<"s","e","e"," ","\"","r","e","q","u","e","s","t","\""," ","d","o","c","s">>
PackageTexts == {PkgTidy, PkgDated, PkgBare, PkgTrailingComma, PkgCutOff, PkgProse, <<>>}

\* The texts of tsconfig.json, the last not JSON.
TsStrict == <<"{","\"","c","o","m","p","i","l","e","r","O","p","t","i","o","n","s","\"",":","{","\"","s","t","r","i","c","t","\"",":","t","r","u","e","}","}">>
TsLoose == <<"{","\"","c","o","m","p","i","l","e","r","O","p","t","i","o","n","s","\"",":","{","\"","s","t","r","i","c","t","\"",":","f","a","l","s","e","}","}">>
TsTrailingComma == <<"{","\"","c","o","m","p","i","l","e","r","O","p","t","i","o","n","s","\"",":","{","\"","s","t","r","i","c","t","\"",":","t","r","u","e","}",",","}">>
TsConfigTexts == {TsStrict, TsLoose, TsTrailingComma}

\* JSON.parse on these texts: <<value>>, or Null where it throws.  An object
\* of names is the set of its keys.
JSONParse(text) ==
    CASE text = PkgTidy -> Some([dependencies |-> Some({"react"}),
                                 devDependencies |-> Some({"eslint", "prettier"}),
                                 compilerOptions |-> Null])
      [] text = PkgDated -> Some([dependencies |-> Some({"moment", "request"}),
                                  devDependencies |-> Null, compilerOptions |-> Null])
      [] text = PkgBare -> Some([dependencies |-> Null, devDependencies |-> Null,
                                 compilerOptions |-> Null])
      [] text = TsStrict -> Some([dependencies |-> Null, devDependencies |-> Null,
                                  compilerOptions |-> Some([strict |-> TRUE])])
      [] text = TsLoose -> Some([dependencies |-> Null, devDependencies |-> Null,
                                 compilerOptions |-> Some([strict |-> FALSE])])
      [] OTHER -> Null

\* const VULNERABLE_DEPS
VULNERABLE_DEPS ==
    << [pattern |-> <<"\"","m","o","m","e","n","t","\"">>, msg |-> "moment.js -> date-fns"],
       [pattern |-> <<"\"","r","e","q","u","e","s","t","\"">>, msg |-> "request -> axios"] >>

\* The loop over VULNERABLE_DEPS: pattern.test(pkg) on the text of the file
RECURSIVE vulnerableDeps(_, _)
vulnerableDeps(pkg, k) ==
    IF k > Len(VULNERABLE_DEPS) THEN <<>>
    ELSE (IF Contains(pkg, VULNERABLE_DEPS[k].pattern)
          THEN <<VULNERABLE_DEPS[k].msg>> ELSE <<>>)
         \o vulnerableDeps(pkg, k + 1)

\* analyzeCodeMetrics on a repository whose tree gave hasLinting, hasPrettier
\* and hasTypeScript and whose important files are package.json and
\* tsconfig.json (Null for a file that is not there): the package.json
\* analysis, the TypeScript check and the vulnerable dependencies.
analyzeCodeMetrics(byPath, pkg, tsConfig) ==
    LET parsed == IF Falsy(pkg) THEN Null ELSE JSONParse(pkg[1])
        deps == IF parsed = Null THEN {} ELSE Or(parsed[1].dependencies, Some({}))[1]
        devDeps == IF parsed = Null THEN {} ELSE Or(parsed[1].devDependencies, Some({}))[1]
        hasLinting == IF parsed # Null /\ ~byPath.hasLinting
                      THEN "eslint" \in devDeps \/ "biome" \in devDeps
                      ELSE byPath.hasLinting
        hasPrettier == IF parsed # Null /\ ~byPath.hasPrettier
                       THEN "prettier" \in devDeps
                       ELSE byPath.hasPrettier
        tsParsed == IF Falsy(tsConfig) THEN Null ELSE JSONParse(tsConfig[1])
        strictMode == /\ tsParsed # Null
                      /\ tsParsed[1].compilerOptions # Null
                      /\ tsParsed[1].compilerOptions[1].strict
    IN  [BareRepoMetrics EXCEPT
            !.hasLinting = hasLinting,
            !.hasPrettier = hasPrettier,
            !.hasTypeScript = byPath.hasTypeScript,
            !.strictMode = strictMode,
            !.dependencyCount = Cardinality(deps),
            !.devDependencyCount = Cardinality(devDeps),
            !.vulnerablePatterns = IF Falsy(pkg) THEN <<>> ELSE vulnerableDeps(pkg[1], 1)]

AnalyzeCodeMetricsInputs ==
    { [byPath |-> [hasLinting |-> l, hasPrettier |-> p, hasTypeScript |-> t],
       pkg |-> pkg, tsConfig |-> ts] :
        l \in BOOLEAN, p \in BOOLEAN, t \in BOOLEAN,
        pkg \in {Null} \cup { Some(text) : text \in PackageTexts },
        ts \in {Null} \cup { Some(text) : text \in TsConfigTexts } }

AnalyzeCodeMetrics ==
    /\ fn = "analyzeCodeMetrics" /\ out1 = Null
    /\ out1' = Some(analyzeCodeMetrics(input[1].byPath, input[1].pkg, input[1].tsConfig))
    /\ UNCHANGED <<fn, input, out2, rlVars, scoreVars, postVars, hookVars, viewVars>>

(***************************************************************************)
(* Consumer: two analyze calls in progress at once                         *)
(***************************************************************************)

\* analyze(url) for a repository url, no call being in progress.
AnalyzeFirst ==
    /\ other = Null /\ history = <<>>
    /\ Analyze("https://github.com/acme/app", Null, FALSE)

\* analyzeBranch(branch) while an analyze call awaits its response or its
\* stream: analyze(currentRepoUrl, branch, true) runs up to its fetch, and
\* the call that was in progress stays in progress.
AnalyzeBranch(branch) ==
    /\ analyzing # Null /\ other = Null /\ history = <<>>
    /\ LET url == analyzing[1].url
           repoFullName == extractRepoFullName(url)
       IN  /\ repoFullName # Null
           /\ analyzing' = Some([url |-> url, branch |-> Some(branch), skipCache |-> TRUE,
                                 repoFullName |-> repoFullName[1],
                                 pc |-> "fetch", aiContent |-> <<>>,
                                 currentResult |-> << >>])
    /\ other' = analyzing
    /\ isCached' = FALSE
    /\ status' = "fetching"
    /\ result' = Null
    /\ UNCHANGED <<cache, history, listeners, cachedHistory, notified, lastOp, rlVars, scoreVars,
                   codecVars, postVars>>

\* Of two calls in progress, the one whose awaited response or chunk arrives
\* next is the other one.
Resume ==
    /\ other # Null
    /\ analyzing' = other
    /\ other' = analyzing
    /\ UNCHANGED <<cache, status, result, isCached, history, listeners, cachedHistory, notified,
                   lastOp, rlVars, scoreVars, codecVars, postVars>>

(***************************************************************************)
(* Specifications                                                          *)
(***************************************************************************)

InitSpecRateLimit ==
    /\ rateLimitMap = EmptyMap
    /\ cleanupInterval = FALSE
    /\ now = 0
    /\ calls = <<>>
    /\ metrics = Null /\ scores = Null
    /\ fn = "" /\ input = Null /\ out1 = Null /\ out2 = Null
    /\ configured = TRUE /\ request = Null /\ pc = "idle" /\ steps = <<>>
    /\ response = Null /\ mapBefore = EmptyMap /\ deterministic = Null /\ fetches = Null
    /\ cache = EmptyCache /\ analyzing = Null /\ status = "idle" /\ result = Null
    /\ isCached = FALSE /\ history = <<>>
    /\ other = Null /\ listeners = {} /\ cachedHistory = Null /\ notified = {} /\ lastOp = ""

NextRateLimit ==
    \/ \E ip \in Clients : CheckRateLimit(ip)
    \/ CleanupTimer
    \/ Tick

SpecRateLimit == InitSpecRateLimit /\ [][NextRateLimit]_vars

InitSpecScores ==
    /\ metrics \in MetricsInputs
    /\ scores = Null
    /\ rateLimitMap = EmptyMap /\ cleanupInterval = FALSE /\ now = 0 /\ calls = <<>>
    /\ fn = "" /\ input = Null /\ out1 = Null /\ out2 = Null
    /\ configured = TRUE /\ request = Null /\ pc = "idle" /\ steps = <<>>
    /\ response = Null /\ mapBefore = EmptyMap /\ deterministic = Null /\ fetches = Null
    /\ cache = EmptyCache /\ analyzing = Null /\ status = "idle" /\ result = Null
    /\ isCached = FALSE /\ history = <<>>
    /\ other = Null /\ listeners = {} /\ cachedHistory = Null /\ notified = {} /\ lastOp = ""

NextScores == CalculateScores

SpecScores == InitSpecScores /\ [][NextScores]_vars

InitSpecCodec ==
    /\ \/ fn = "sanitizeLabel" /\ input \in LabelInputs
       \/ fn = "sanitizeId" /\ input \in IdInputs
       \/ fn = "validateMermaidSyntax" /\ input \in MermaidInputs
    /\ out1 = Null /\ out2 = Null
    /\ rateLimitMap = EmptyMap /\ cleanupInterval = FALSE /\ now = 0 /\ calls = <<>>
    /\ metrics = Null /\ scores = Null
    /\ configured = TRUE /\ request = Null /\ pc = "idle" /\ steps = <<>>
    /\ response = Null /\ mapBefore = EmptyMap /\ deterministic = Null /\ fetches = Null
    /\ cache = EmptyCache /\ analyzing = Null /\ status = "idle" /\ result = Null
    /\ isCached = FALSE /\ history = <<>>
    /\ other = Null /\ listeners = {} /\ cachedHistory = Null /\ notified = {} /\ lastOp = ""

NextCodec ==
    \/ SanitizeLabel
    \/ SanitizeLabelAgain
    \/ SanitizeId
    \/ SanitizeIdAgain
    \/ ValidateMermaidSyntax

SpecCodec == InitSpecCodec /\ [][NextCodec]_vars

InitSpecDiagram ==
    /\ \/ fn = "generateDataFlowDiagram" /\ input \in { Some(x) : x \in DataFlowInputs }
       \/ fn = "generateSequenceDiagram" /\ input \in { Some(x) : x \in DataFlowInputs }
       \/ fn = "generateArchitectureDiagram" /\ input \in { Some(x) : x \in ArchitectureInputs }
       \/ fn = "processDiagrams" /\ input \in { Some(x) : x \in ProcessDiagramsInputs }
       \/ fn = "DataFlowDiagram" /\ input \in { Some(x) : x \in DataFlowDiagramProps }
    /\ out1 = Null /\ out2 = Null
    /\ rateLimitMap = EmptyMap /\ cleanupInterval = FALSE /\ now = 0 /\ calls = <<>>
    /\ metrics = Null /\ scores = Null
    /\ configured = TRUE /\ request = Null /\ pc = "idle" /\ steps = <<>>
    /\ response = Null /\ mapBefore = EmptyMap /\ deterministic = Null /\ fetches = Null
    /\ cache = EmptyCache /\ analyzing = Null /\ status = "idle" /\ result = Null
    /\ isCached = FALSE /\ history = <<>>
    /\ other = Null /\ listeners = {} /\ cachedHistory = Null /\ notified = {} /\ lastOp = ""

NextDiagram ==
    \/ GenerateDataFlowDiagram
    \/ GenerateDataFlowDiagramAgain
    \/ GenerateSequenceDiagram
    \/ GenerateSequenceDiagramAgain
    \/ GenerateArchitectureDiagram
    \/ GenerateArchitectureDiagramAgain
    \/ ProcessDiagrams
    \/ DataFlowDiagramMemo
    \/ DataFlowDiagramRenderEffect

SpecDiagram == InitSpecDiagram /\ [][NextDiagram]_vars

InitSpecPost ==
    /\ configured \in BOOLEAN
    /\ request = Null /\ pc = "idle" /\ steps = <<>> /\ response = Null
    /\ mapBefore = EmptyMap /\ deterministic = Null /\ fetches = Null
    /\ rateLimitMap = EmptyMap /\ cleanupInterval = FALSE /\ now = 0 /\ calls = <<>>
    /\ metrics = Null /\ scores = Null
    /\ fn = "" /\ input = Null /\ out1 = Null /\ out2 = Null
    /\ cache = EmptyCache /\ analyzing = Null /\ status = "idle" /\ result = Null
    /\ isCached = FALSE /\ history = <<>>
    /\ other = Null /\ listeners = {} /\ cachedHistory = Null /\ notified = {} /\ lastOp = ""

NextPost ==
    \/ \E req \in Requests : PostReceive(req)
    \/ PostBody
    \/ PostMetadata
    \/ PostParallel
    \/ PostStreamText
    \/ PostSent
    \/ CleanupTimer
    \/ Tick

SpecPost == InitSpecPost /\ [][NextPost]_vars

InitSpecHook ==
    /\ cache = EmptyCache /\ analyzing = Null /\ status = "idle" /\ result = Null
    /\ isCached = FALSE /\ history = <<>>
    /\ other = Null /\ listeners = {} /\ cachedHistory = Null /\ notified = {} /\ lastOp = ""
    /\ rateLimitMap = EmptyMap /\ cleanupInterval = FALSE /\ now = 0 /\ calls = <<>>
    /\ metrics = Null /\ scores = Null
    /\ fn = "" /\ input = Null /\ out1 = Null /\ out2 = Null
    /\ configured = TRUE /\ request = Null /\ pc = "idle" /\ steps = <<>>
    /\ response = Null /\ mapBefore = EmptyMap /\ deterministic = Null /\ fetches = Null

NextHook ==
    \/ \E url \in Urls, branch \in Branches, skipCache \in BOOLEAN :
           Analyze(url, branch, skipCache)
    \/ FetchSettled
    \/ ReadMetadataFrame
    \/ \E c \in ContentAlphabet : ReadContentFrame(<<c>>)
    \/ ReadErrorFrame
    \/ ReadDoneFrame
    \/ StreamEnd
    \/ Wait

SpecHook == InitSpecHook /\ [][NextHook]_vars

InitSpecView ==
    /\ listeners = {} /\ cachedHistory = Null /\ notified = {} /\ lastOp = ""
    /\ cache = EmptyCache /\ analyzing = Null /\ status = "idle" /\ result = Null
    /\ isCached = FALSE /\ history = <<>> /\ other = Null
    /\ rateLimitMap = EmptyMap /\ cleanupInterval = FALSE /\ now = 0 /\ calls = <<>>
    /\ metrics = Null /\ scores = Null
    /\ fn = "" /\ input = Null /\ out1 = Null /\ out2 = Null
    /\ configured = TRUE /\ request = Null /\ pc = "idle" /\ steps = <<>>
    /\ response = Null /\ mapBefore = EmptyMap /\ deterministic = Null /\ fetches = Null

NextView ==
    \/ \E listener \in Listeners : Subscribe(listener)
    \/ \E listener \in Listeners : Unsubscribe(listener)
    \/ GetSnapshot
    \/ \E entry \in 1..2 : RemoveFromHistory(entry)
    \/ ClearAllHistory
    \/ \E url \in Urls, branch \in Branches : AnalyzeCompletes(url, branch)
    \/ \E url \in Urls, branch \in Branches \cup {Some(DefaultBranch)} : ClearCache(url, branch)
    \/ Wait

SpecView == InitSpecView /\ [][NextView]_vars

InitSpecReader ==
    /\ fn = "reader.read" /\ input \in { Some(chunks) : chunks \in ReaderInputs }
    /\ out1 = Some(NewReader) /\ out2 = Null
    /\ rateLimitMap = EmptyMap /\ cleanupInterval = FALSE /\ now = 0 /\ calls = <<>>
    /\ metrics = Null /\ scores = Null
    /\ configured = TRUE /\ request = Null /\ pc = "idle" /\ steps = <<>>
    /\ response = Null /\ mapBefore = EmptyMap /\ deterministic = Null /\ fetches = Null
    /\ cache = EmptyCache /\ analyzing = Null /\ status = "idle" /\ result = Null
    /\ isCached = FALSE /\ history = <<>>
    /\ other = Null /\ listeners = {} /\ cachedHistory = Null /\ notified = {} /\ lastOp = ""

NextReader ==
    \/ ReaderRead
    \/ ReaderDone

SpecReader == InitSpecReader /\ [][NextReader]_vars

InitSpecPrompt ==
    /\ fn = "prepareFilesContent" /\ input \in { Some(in) : in \in PrepareFilesContentInputs }
    /\ out1 = Null /\ out2 = Null
    /\ rateLimitMap = EmptyMap /\ cleanupInterval = FALSE /\ now = 0 /\ calls = <<>>
    /\ metrics = Null /\ scores = Null
    /\ configured = TRUE /\ request = Null /\ pc = "idle" /\ steps = <<>>
    /\ response = Null /\ mapBefore = EmptyMap /\ deterministic = Null /\ fetches = Null
    /\ cache = EmptyCache /\ analyzing = Null /\ status = "idle" /\ result = Null
    /\ isCached = FALSE /\ history = <<>>
    /\ other = Null /\ listeners = {} /\ cachedHistory = Null /\ notified = {} /\ lastOp = ""

NextPrompt == PrepareFilesContent

SpecPrompt == InitSpecPrompt /\ [][NextPrompt]_vars

InitSpecMetrics ==
    /\ fn = "analyzeCodeMetrics" /\ input \in { Some(in) : in \in AnalyzeCodeMetricsInputs }
    /\ out1 = Null /\ out2 = Null
    /\ rateLimitMap = EmptyMap /\ cleanupInterval = FALSE /\ now = 0 /\ calls = <<>>
    /\ metrics = Null /\ scores = Null
    /\ configured = TRUE /\ request = Null /\ pc = "idle" /\ steps = <<>>
    /\ response = Null /\ mapBefore = EmptyMap /\ deterministic = Null /\ fetches = Null
    /\ cache = EmptyCache /\ analyzing = Null /\ status = "idle" /\ result = Null
    /\ isCached = FALSE /\ history = <<>>
    /\ other = Null /\ listeners = {} /\ cachedHistory = Null /\ notified = {} /\ lastOp = ""

NextMetrics == AnalyzeCodeMetrics

SpecMetrics == InitSpecMetrics /\ [][NextMetrics]_vars

InitSpecOverlap ==
    /\ cache = EmptyCache /\ analyzing = Null /\ status = "idle" /\ result = Null
    /\ isCached = FALSE /\ history = <<>>
    /\ other = Null /\ listeners = {} /\ cachedHistory = Null /\ notified = {} /\ lastOp = ""
    /\ rateLimitMap = EmptyMap /\ cleanupInterval = FALSE /\ now = 0 /\ calls = <<>>
    /\ metrics = Null /\ scores = Null
    /\ fn = "" /\ input = Null /\ out1 = Null /\ out2 = Null
    /\ configured = TRUE /\ request = Null /\ pc = "idle" /\ steps = <<>>
    /\ response = Null /\ mapBefore = EmptyMap /\ deterministic = Null /\ fetches = Null

NextOverlap ==
    \/ AnalyzeFirst
    \/ AnalyzeBranch("dev")
    \/ Resume
    \/ FetchSettled
    \/ ReadMetadataFrame
    \/ \E c \in {"{", "}"} : ReadContentFrame(<<c>>)
    \/ ReadErrorFrame
    \/ ReadDoneFrame
    \/ StreamEnd

SpecOverlap == InitSpecOverlap /\ [][NextOverlap]_vars

(***************************************************************************)
(* Claims                                                                  *)
(***************************************************************************)

\* The calls of one client, in order.
CallsOf(ip) == SelectSeq(calls, LAMBDA c : c.ip = ip)

\* The time at which the window holding the i-th call of s opened: the first
\* call opens a window, and so does each call made after the reset time
\* (opening time + WINDOW_MS) of the window before it has passed.
RECURSIVE WindowOpenedAt(_, _)
WindowOpenedAt(s, i) ==
    IF i = 1 THEN s[1].at
    ELSE LET prev == WindowOpenedAt(s, i - 1)
         IN  IF s[i].at > prev + WINDOW_MS THEN s[i].at ELSE prev

\* The rank of the i-th call of s among the calls of its window.
RankInWindow(s, i) ==
    Cardinality({ j \in 1..i : WindowOpenedAt(s, j) = WindowOpenedAt(s, i) })

\* C1: for every client, a checkRateLimit call is allowed exactly when it is
\* among the first MAX_REQUESTS calls of its window, and the call that opens a
\* window (the first ever, or the first after the reset time has passed) leaves
\* a record with count = 1 and reset time = call time + WINDOW_MS.
C1_FixedWindow ==
    \A ip \in Clients :
        LET s == CallsOf(ip)
        IN  \A i \in 1..Len(s) :
                /\ s[i].allowed <=> RankInWindow(s, i) <= MAX_REQUESTS
                /\ RankInWindow(s, i) = 1 =>
                       s[i].stored = [count |-> 1, resetTime |-> s[i].at + WINDOW_MS]

\* A client was rejected in one window and allowed again by the first call after
\* the reset time.
C1_Witness ==
    \E ip \in Clients :
        LET s == CallsOf(ip)
        IN  \E i \in 2..Len(s) :
                /\ ~s[i - 1].allowed
                /\ s[i].allowed
                /\ s[i].stored.count = 1

\* C2: a checkRateLimit call that returns allowed = false returns remaining = 0
\* and leaves the whole map (the rejected client's record and every other
\* client's) and the timer as they were.
C2_RejectedCallChangesNothing ==
    [][ (Len(calls') = Len(calls) + 1 /\ ~calls'[Len(calls')].allowed)
        => /\ rateLimitMap' = rateLimitMap
           /\ cleanupInterval' = cleanupInterval
           /\ calls'[Len(calls')].remaining = 0 ]_vars

\* The last call was rejected while another client also holds a record.
C2_Witness ==
    /\ calls # <<>>
    /\ ~calls[Len(calls)].allowed
    /\ Cardinality(DOMAIN rateLimitMap) = 2

\* C3: the seven scores calculateScores returns are integers in [0,100].
C3_ScoresInRange ==
    scores # Null =>
        /\ scores[1].overall \in 0..100
        /\ scores[1].codeQuality \in 0..100
        /\ scores[1].documentation \in 0..100
        /\ scores[1].security \in 0..100
        /\ scores[1].maintainability \in 0..100
        /\ scores[1].testCoverage \in 0..100
        /\ scores[1].dependencies \in 0..100

\* Scores were computed with a category at the top of the range and the
\* documentation score at its lowest.
C3_Witness ==
    /\ scores # Null
    /\ scores[1].codeQuality = 100
    /\ scores[1].documentation = 15

\* 100 times the exact weighted sum of the six returned category scores.
WeightedSumTimes100(sc) ==
    20 * sc.codeQuality + 20 * sc.security + 20 * sc.maintainability
    + 15 * sc.documentation + 15 * sc.testCoverage + 10 * sc.dependencies

\* C4: overall is the exact weighted sum of the six returned category scores
\* (weights 0.20, 0.20, 0.20, 0.15, 0.15, 0.10, which sum to 1.0), rounded to
\* the nearest integer with halves rounded up.
C4_OverallIsRoundedWeightedSum ==
    /\ 20 + 20 + 20 + 15 + 15 + 10 = 100
    /\ scores # Null =>
           scores[1].overall = (WeightedSumTimes100(scores[1]) + 50) \div 100

\* Scores were computed whose exact weighted sum lies halfway between two integers.
C4_Witness ==
    /\ scores # Null
    /\ WeightedSumTimes100(scores[1]) % 100 = 50

ScenarioA ==
    /\ metrics # Null
    /\ ~metrics.hasTests /\ ~metrics.hasCI
    /\ metrics.hasTypeScript /\ ~metrics.strictMode

\* C5 as stated: every CodeMetrics value with hasTests = false, hasCI = false,
\* hasTypeScript = true, strictMode = false has a code-quality score of 70.
C5_ScenarioA_AsStated ==
    (scores # Null /\ ScenarioA) => scores[1].codeQuality = 70

\* C5 amended: every such CodeMetrics value that also has hasLinting = false,
\* hasPrettier = false and codePatterns.hasErrorHandling = false has a
\* code-quality score of 70, factored as the TypeScript bonus alone.
C5_ScenarioA_NoOtherBonus ==
    ( /\ scores # Null /\ ScenarioA
      /\ ~metrics.hasLinting /\ ~metrics.hasPrettier
      /\ ~metrics.codePatterns.hasErrorHandling )
    => /\ scores[1].codeQuality = 70
       /\ Len(scores[1].breakdown.codeQuality.factors) = 1

C5_Witness ==
    /\ scores # Null /\ ScenarioA
    /\ ~metrics.hasLinting /\ ~metrics.hasPrettier
    /\ ~metrics.codePatterns.hasErrorHandling
    /\ scores[1].codeQuality = 70

\* The decimal number written by the digits of f from position i on.
RECURSIVE DigitsValue(_, _, _)
DigitsValue(f, i, acc) ==
    IF i <= Len(f) /\ f[i] \in Digits
    THEN DigitsValue(f, i + 1,
                     10 * acc + (CHOOSE d \in 0..9 :
                                   <<"0","1","2","3","4","5","6","7","8","9">>[d + 1] = f[i]))
    ELSE acc

\* The signed delta a factor string writes: "+20: ..." is 20, "-15: ..." is -15,
\* and a string that starts with neither sign writes none.
SignedDelta(f) ==
    IF f # <<>> /\ f[1] = "+" THEN DigitsValue(f, 2, 0)
    ELSE IF f # <<>> /\ f[1] = "-" THEN 0 - DigitsValue(f, 2, 0)
    ELSE 0

RECURSIVE SumOfDeltas(_)
SumOfDeltas(factors) ==
    IF factors = <<>> THEN 0
    ELSE SignedDelta(Head(factors)) + SumOfDeltas(Tail(factors))

\* The score re-derived from a category's base and its factor list alone.
Rederived(base, entry) == Max(0, Min(100, base + SumOfDeltas(entry.factors)))

\* C6: each of the six category scores equals clamp(base + the sum of the
\* signed deltas written in the category's factor list, 0, 100).
C6_ScoreRederivableFromFactors ==
    scores # Null =>
        LET b == scores[1].breakdown
        IN  /\ b.codeQuality.score = Rederived(50, b.codeQuality)
            /\ b.documentation.score = Rederived(30, b.documentation)
            /\ b.security.score = Rederived(70, b.security)
            /\ b.maintainability.score = Rederived(50, b.maintainability)
            /\ b.testCoverage.score = Rederived(20, b.testCoverage)
            /\ b.dependencies.score = Rederived(80, b.dependencies)

\* The trimmed text begins with a recognized keyword, letter case ignored.
BeginsWithKeyword(text) ==
    /\ text # Null
    /\ \E k \in 1..Len(validStarts) :
           LET t == Trim(text[1])
               n == Len(validStarts[k])
           IN  /\ Len(t) >= n
               /\ ToLowerCase(SubSeq(t, 1, n)) = ToLowerCase(validStarts[k])

\* C7: validateMermaidSyntax returns true exactly when the trimmed text begins,
\* compared case-insensitively, with one of the nine recognized keywords; it
\* returns false for every other text, the empty text and null.
C7_ValidateIffKeywordPrefix ==
    (fn = "validateMermaidSyntax" /\ out1 # Null)
        => (out1[1] <=> BeginsWithKeyword(input))

WellFormedId(id) ==
    /\ id # <<>>
    /\ id[1] \in Letters
    /\ \A i \in 1..Len(id) : id[i] \in Letters \cup Digits \cup {"_", "-"}
    /\ Len(id) <= 30

C9_SanitizeLabelIdempotent ==
    (fn = "sanitizeLabel" /\ out2 # Null) => out2 = out1

\* C10: the result of sanitizeLabel holds no parenthesis, square bracket, brace,
\* double quote, angle bracket, pipe, newline or carriage return, holds no two
\* adjacent white-space characters, and is at most 40 characters long.
C10_SanitizeLabelSafe ==
    (fn = "sanitizeLabel" /\ out1 # Null) =>
        LET r == out1[1]
        IN  /\ \A i \in 1..Len(r) :
                   r[i] \notin {"(", ")", "[", "]", "{", "}", "\"", "<", ">", "|", "\n", "\r"}
            /\ \A i \in 1..(Len(r) - 1) :
                   ~(r[i] \in WhiteSpace /\ r[i + 1] \in WhiteSpace)
            /\ Len(r) <= 40

\* C11: generating a data flow, architecture or sequence diagram twice from
\* the same structured data, nodes with an empty id or name included, gives
\* the same diagram text both times.
C11_SynthesisDeterministic ==
    (/\ fn \in {"generateDataFlowDiagram", "generateSequenceDiagram",
                "generateArchitectureDiagram"}
     /\ out1 # Null /\ out2 # Null)
    => out1[1].code = out2[1].code

\* The diagrams processDiagrams may put in a field when the backend's text is
\* not used: the generator's output on the structured data, which is the
\* single-node placeholder when there is no such data.
Synthesized(field, in) ==
    CASE field = "architecture" ->
             { generateArchitectureDiagram(in.architecture, s, m) :
                 s \in SafeIdChoices(in.architecture), m \in SafeIdChoices(in.architecture) }
      [] field = "dataFlow" ->
             { generateDataFlowDiagram(in.dataFlow.nodes, in.dataFlow.edges, s) :
                 s \in SafeIdChoices(in.dataFlow.nodes) }
      [] field = "components" ->
             { generateSequenceDiagram(in.dataFlow.nodes, in.dataFlow.edges, s) :
                 s \in SafeIdChoices(in.dataFlow.nodes) }

\* C12: each diagram of the processDiagrams result is the backend's diagram
\* verbatim when its text passes validateMermaidSyntax, else the diagram
\* synthesized from the structured data, else the single-node placeholder; no
\* diagram of the result is absent or has empty text.
C12_ProcessDiagramsPolicy ==
    (fn = "processDiagrams" /\ out1 # Null) =>
        \A field \in {"architecture", "dataFlow", "components"} :
            LET ai == input[1].aiDiagrams[field]
                r == out1[1][field]
            IN  /\ r # Null
                /\ r[1].code # <<>>
                /\ IF ai # Null /\ validateMermaidSyntax(Some(ai[1].code))
                   THEN r = ai
                   ELSE r[1] \in Synthesized(field, input[1])

\* C13: the text the DataFlowDiagram component hands to mermaid.render passes
\* validateMermaidSyntax.
C13_RenderedTextIsValidated ==
    (fn = "DataFlowDiagram" /\ out2 # Null) => validateMermaidSyntax(out2)

\* The size checks of POST, as the code makes them: the declared
\* content-length, then the length of the text read.
SizeRejected(req) ==
    \/ req.contentLength # Null /\ req.contentLength[1] > MAX_BODY_SIZE
    \/ req.body.length > MAX_BODY_SIZE

\* A request that was answered after the rate limiter admitted it.
Answered == request # Null /\ response # Null /\ response[1].status \notin {503, 429}

\* C14: each rejection cause has its own outward status: an oversize body,
\* malformed JSON and an invalid repository reference are answered with three
\* different 4xx statuses, and a rate-limit rejection with 429 and a
\* Retry-After header.
C14_RejectionStatuses ==
    /\ (request # Null /\ response # Null /\ response[1].status = 429)
           => response[1].retryAfter # Null
    /\ Answered =>
           LET req == request[1]
               code == response[1].status
           IN  /\ SizeRejected(req) => code = 413
               /\ (~SizeRejected(req) /\ req.kind = "malformed") => code = 400
               /\ (~SizeRejected(req) /\ req.kind = "invalidRepo")
                      => code \in (400..499) \ {400, 413, 429}

\* The calls POST makes to its external collaborators.
ExternalCalls ==
    {"fetchRepoMetadata", "fetchRepoTree", "fetchImportantFiles", "fetchRepoBranches",
     "streamText"}

\* The record the rate limiter holds for a client, Null when it holds none.
RecordOf(map, ip) == IF ip \in DOMAIN map THEN Some(map[ip]) ELSE Null

\* A request answered with an admission error: oversize body, malformed JSON,
\* invalid repository reference.
AdmissionError ==
    /\ Answered
    /\ \/ SizeRejected(request[1])
       \/ request[1].kind \in {"malformed", "invalidRepo"}

\* C15: a request rejected for an admission error has no side effects: no
\* external call was made, and the client's rate-limit record is the one it was
\* before the request.
C15_AdmissionErrorNoSideEffects ==
    AdmissionError =>
        /\ \A i \in 1..Len(steps) : steps[i] \notin ExternalCalls
        /\ RecordOf(rateLimitMap, request[1].ip) = RecordOf(mapBefore, request[1].ip)

\* C16: a request whose body is larger than the 10 KiB cap is rejected with
\* the oversize-body outcome, and neither JSON.parse nor the shape validation
\* of the body is attempted for it.
C16_OversizeBeforeParsing ==
    (/\ request # Null
     /\ request[1].body.bytes > MAX_BODY_SIZE
     /\ configured
     /\ response # Null => response[1].status # 429)
        => /\ \A i \in 1..Len(steps) : steps[i] \notin {"JSON.parse", "parseRequestBody"}
           /\ response # Null => response[1].status = 413

\* Position of the first occurrence of a step, 0 when it did not happen.
IndexOf(seq, step) ==
    IF \E i \in 1..Len(seq) : seq[i] = step
    THEN CHOOSE i \in 1..Len(seq) : seq[i] = step /\ \A j \in 1..(i - 1) : seq[j] # step
    ELSE 0

\* C17: metrics and scores are computed before the generative backend is
\* called, the backend is called once, and a response to a request that has
\* reached the backend call carries the deterministic results (metadata, tree,
\* metrics, scores).
C17_DeterministicFloor ==
    (request # Null /\ IndexOf(steps, "streamText") > 0) =>
        /\ 0 < IndexOf(steps, "analyzeCodeMetrics")
        /\ IndexOf(steps, "analyzeCodeMetrics") < IndexOf(steps, "calculateScores")
        /\ IndexOf(steps, "calculateScores") < IndexOf(steps, "streamText")
        /\ Cardinality({i \in 1..Len(steps) : steps[i] = "streamText"}) = 1
        /\ response # Null =>
               /\ response[1].stream # Null
               /\ response[1].stream[1].metadata = deterministic[1].metadata
               /\ response[1].stream[1].tree = deterministic[1].tree
               /\ response[1].stream[1].metrics = deterministic[1].metrics
               /\ response[1].stream[1].scores = deterministic[1].scores

\* Number of "{" less number of "}" in text[i..j]
Balance(text, i, j) ==
    Cardinality({k \in i..j : text[k] = "{"}) - Cardinality({k \in i..j : text[k] = "}"})

\* The first balanced object of a text: from the earliest "{" that has a
\* matching "}" to that "}"; Null when the text has none.
FirstBalancedObject(text) ==
    LET starts == { i \in 1..Len(text) :
                      text[i] = "{" /\ \E j \in i..Len(text) : Balance(text, i, j) = 0 }
        start == CHOOSE i \in starts : \A k \in starts : i <= k
        ends == { j \in start..Len(text) : Balance(text, start, j) = 0 }
        end == CHOOSE j \in ends : \A k \in ends : j <= k
    IN  IF starts = {} THEN Null ELSE Some(SubSeq(text, start, end))

\* The object the narrative text holds: Null when it has no balanced object or
\* that object is not JSON.
NarrativeObject(text) ==
    IF FirstBalancedObject(text) = Null THEN Null
    ELSE JsonParse(FirstBalancedObject(text)[1])

\* The done frame of the call under way has been handled.
DoneHandled == analyzing # Null /\ analyzing[1].pc = "done"

Present(data, field) == field \in DOMAIN data /\ data[field] # Null
EmptyList(data, field) == field \in DOMAIN data /\ data[field] = Some(<<>>)

\* C18: when the done frame arrives and the narrative text cannot be parsed,
\* the cache holds a result written for the repository at that time, with
\* metadata, metrics and scores present and every narrative collection empty.
C18_UnparsableStillCached ==
    (DoneHandled /\ NarrativeObject(analyzing[1].aiContent) = Null) =>
        \E key \in DOMAIN cache :
            LET data == cache[key].data
            IN  /\ key[1] = analyzing[1].repoFullName
                /\ cache[key].timestamp = now
                /\ Present(data, "metadata") /\ Present(data, "metrics")
                /\ Present(data, "scores")
                /\ \A field \in {"insights", "techStack", "howToRun", "keyFolders",
                                 "architecture", "refactors", "automations"} :
                       EmptyList(data, field)
                /\ "dataFlow" \in DOMAIN data
                /\ data.dataFlow = Some([nodes |-> <<>>, edges |-> <<>>])

\* C19: on the done frame the object parsed is the first balanced object of
\* the narrative text, whatever text surrounds it: the result shown is the one
\* built from that object.
C19_FirstBalancedObjectParsed ==
    (DoneHandled /\ NarrativeObject(analyzing[1].aiContent) # Null) =>
        result = updateResult(Some(analyzing[1].currentResult),
                              finalResult(analyzing[1].currentResult,
                                          NarrativeObject(analyzing[1].aiContent)[1]))

\* The call ended with a narrative (parsed or fallback) in its result, which
\* is when the done frame writes to the cache.
NarrativeStored(call) == "summary" \in DOMAIN call.result[1]

\* C20: of two analyze calls in a row for the same repository and branch, the
\* second within the retention window of the first, and the first having
\* completed with a result, the second makes no request and returns the result
\* of the first.
C20_SecondServedFromCache ==
    \A i \in 1..(Len(history) - 1) :
        LET first == history[i]
            second == history[i + 1]
        IN  (/\ first.stage = "complete" /\ first.result # Null
             /\ NarrativeStored(first)
             /\ second.url = first.url /\ second.branch = first.branch
             /\ ~second.skipCache
             /\ second.at - first.at < TTL_DAYS)
                => /\ ~second.fetched
                   /\ second.result = first.result

\* The records a snapshot shows, without the fields computed for display.
RawHistory(snapshot) ==
    [i \in 1..Len(snapshot) |->
        [repoFullName |-> snapshot[i].repoFullName, branch |-> snapshot[i].branch,
         data |-> snapshot[i].data, timestamp |-> snapshot[i].timestamp]]

\* C21: after every mutation of the result cache (set after an analysis,
\* remove, clearAll), whoever made it, all subscribed listeners have been
\* notified and a read of the recent-analyses snapshot shows the cache as the
\* mutation left it.
C21_MutationNotifies ==
    lastOp # "" =>
        /\ notified = listeners
        /\ RawHistory(getSnapshot(cachedHistory, cache, now)) = getRecent(cache, 10)

\* The bytes of a stream, whatever chunks it came in.
RECURSIVE Flatten(_)
Flatten(chunks) == IF chunks = <<>> THEN <<>> ELSE chunks[1] \o Flatten(Tail(chunks))

\* The payloads of the complete "data: " records of a stream, in stream
\* order: the records of its text that a separator ends.
CompleteRecords(bytes) ==
    LET lines == SplitRecords(DecodeBytes(bytes))
    IN  DataLines(SubSeq(lines, 1, Len(lines) - 1))

\* C22: however the stream text is cut into read chunks, the frames the
\* consumer has processed when the stream ends are the complete "data: "
\* records of the text, each once and in stream order.
C22_ChunkingInvariant ==
    (fn = "reader.read" /\ out1 # Null /\ out1[1].done) =>
        out1[1].frames = CompleteRecords(Flatten(input[1]))

\* A stream read in three chunks, the first ending inside a separator and the
\* second inside a record, with two frames processed.
C22_Witness ==
    /\ fn = "reader.read" /\ out1 # Null /\ out1[1].done
    /\ Len(input[1]) = 3
    /\ input[1][1][Len(input[1][1])] = "\n" /\ input[1][2][1] = "\n"
    /\ input[1][2][Len(input[1][2])] \notin {"\n"}
    /\ Len(out1[1].frames) = 2

\* The entries of an output of prepareFilesContent: each runs from a heading
\* to the next (file names and contents here hold no "#").
Headings(text) ==
    { i \in 1..Len(text) : StartsWith(SubSeq(text, i, Len(text)), <<"#","#","#"," ">>) }

RECURSIVE EmbeddedEntries(_)
EmbeddedEntries(text) ==
    LET later == { i \in Headings(text) : i > 1 }
        next == CHOOSE i \in later : \A j \in later : i <= j
    IN  IF text = <<>> THEN <<>>
        ELSE IF later = {} THEN <<text>>
        ELSE <<SubSeq(text, 1, next - 1)>> \o EmbeddedEntries(SubSeq(text, next, Len(text)))

\* Characters of file content in an entry: the letters a and b.
ContentCharacters(entry) == Cardinality({ i \in 1..Len(entry) : entry[i] \in {"a", "b"} })

\* C23: the output of prepareFilesContent embeds at most maxFiles files and at
\* most maxContentLength characters of each file's content, and it truncates
\* rather than rejects: the first files are all there, each with the leading
\* characters of its content.
C23_PromptCaps ==
    (fn = "prepareFilesContent" /\ out1 # Null) =>
        LET in == input[1]
            entries == EmbeddedEntries(out1[1])
        IN  /\ Len(entries) <= in.maxFiles
            /\ Len(entries) = Min(in.maxFiles, Len(in.importantFiles))
            /\ \A i \in 1..Len(entries) :
                   /\ ContentCharacters(entries[i]) <= in.maxContentLength
                   /\ ContentCharacters(entries[i])
                          = Min(in.maxContentLength, Len(in.importantFiles[i].content))
                   /\ StartsWith(entries[i], <<"#","#","#"," ">> \o in.importantFiles[i].file \o <<"\n">>)

\* More files than maxFiles and a file longer than maxContentLength, both cut.
C23_Witness ==
    /\ fn = "prepareFilesContent" /\ out1 # Null
    /\ Len(input[1].importantFiles) > input[1].maxFiles
    /\ input[1].maxFiles >= 2
    /\ \E i \in 1..input[1].maxFiles :
           Len(input[1].importantFiles[i].content) > input[1].maxContentLength
    /\ input[1].maxContentLength >= 1
    /\ Len(EmbeddedEntries(out1[1])) = input[1].maxFiles

\* A manifest that is present and is not JSON.
InvalidManifest(pkg) == ~Falsy(pkg) /\ JSONParse(pkg[1]) = Null

\* C24: when package.json is present but is not valid JSON, analyzeCodeMetrics
\* returns metrics and the manifest contributes nothing to them: the
\* dependency counts are 0, and the lint, format and deprecated-dependency
\* findings, and so the scores, are those of the repository without the file.
C24_InvalidManifestIgnored ==
    (fn = "analyzeCodeMetrics" /\ out1 # Null /\ InvalidManifest(input[1].pkg)) =>
        LET without == analyzeCodeMetrics(input[1].byPath, Null, input[1].tsConfig)
        IN  /\ out1[1].dependencyCount = 0 /\ out1[1].devDependencyCount = 0
            /\ out1[1].hasLinting = input[1].byPath.hasLinting
            /\ out1[1].hasPrettier = input[1].byPath.hasPrettier
            /\ out1[1].vulnerablePatterns = <<>>
            /\ calculateScores(out1[1]) = calculateScores(without)

\* The three fetches of Promise.all
ParallelFetches == {"fetchRepoTree", "fetchImportantFiles", "fetchRepoBranches"}

\* C25: the target branch is the branch of the request if it names one and
\* the default branch of the repository otherwise; it is resolved before the
\* tree, important-files and branches fetches are called, which are called
\* together with nothing awaited between them; and when one of the three
\* fails the request fails, no metrics having been computed and the
\* generative backend not having been called.
C25_BranchAndFailFast ==
    (request # Null /\ fetches # Null) =>
        /\ fetches[1].targetBranch
               = IF request[1].branch \in {Null, Some("")} THEN fetches[1].defaultBranch
                 ELSE request[1].branch[1]
        /\ fetches[1].fetchRepoTree = fetches[1].targetBranch
        /\ fetches[1].fetchImportantFiles = fetches[1].targetBranch
        /\ IndexOf(steps, "fetchRepoMetadata") < IndexOf(steps, "fetchRepoTree")
        /\ IndexOf(steps, "fetchImportantFiles") = IndexOf(steps, "fetchRepoTree") + 1
        /\ IndexOf(steps, "fetchRepoBranches") = IndexOf(steps, "fetchRepoTree") + 2
        /\ \A fetch \in ParallelFetches :
               IndexOf(steps, Rejected(fetch)) > 0 =>
                   /\ response # Null /\ response[1].status = 500
                   /\ response[1].stream = Null
                   /\ deterministic = Null
                   /\ \A i \in 1..Len(steps) :
                          steps[i] \notin {"analyzeCodeMetrics", "calculateScores", "streamText"}

\* A request for branch dev whose fetchRepoBranches failed after the three
\* fetches were called, answered with the failure.
C25_Witness ==
    /\ request # Null /\ fetches # Null /\ response # Null
    /\ request[1].branch = Some("dev") /\ fetches[1].fetchRepoTree = "dev"
    /\ IndexOf(steps, "fetchRepoBranches rejected") > 0
    /\ response[1].status = 500

\* The map after the first k calls of a log, had no sweep run between them.
RECURSIVE SweepFree(_, _)
SweepFree(log, k) ==
    IF k = 0 THEN EmptyMap
    ELSE checkRateLimit(SweepFree(log, k - 1), log[k].ip, log[k].at).map

\* What the k-th call of a log returns when no sweep runs.
SweepFreeResult(log, k) ==
    checkRateLimit(SweepFree(log, k - 1), log[k].ip, log[k].at).result

\* C26: a sweep deletes exactly the records whose reset time has passed and
\* leaves every other record as it was, and every call returns the allowed
\* and remaining values it returns in the run of the same calls without a
\* sweep.
C26_SweepInvisible ==
    /\ [](\A k \in 1..Len(calls) :
              /\ calls[k].allowed = SweepFreeResult(calls, k).allowed
              /\ calls[k].remaining = SweepFreeResult(calls, k).remaining)
    /\ [](LET unswept == SweepFree(calls, Len(calls))
          IN  /\ DOMAIN rateLimitMap \subseteq DOMAIN unswept
              /\ \A ip \in DOMAIN unswept :
                     IF ip \in DOMAIN rateLimitMap
                     THEN rateLimitMap[ip] = unswept[ip]
                     ELSE now > unswept[ip].resetTime)
    /\ [][(calls' = calls /\ now' = now) =>
              /\ DOMAIN rateLimitMap'
                     = {ip \in DOMAIN rateLimitMap : ~(now > rateLimitMap[ip].resetTime)}
              /\ \A ip \in DOMAIN rateLimitMap' : rateLimitMap'[ip] = rateLimitMap[ip]]_vars

\* A sweep has deleted the record of a client, a call was made after that
\* record had expired, and the client whose record was deleted has called
\* again since.
C26_Witness ==
    \E i, j \in 1..Len(calls) :
        /\ i < j /\ calls[i].ip = calls[j].ip
        /\ calls[j].at > calls[i].stored.resetTime
        /\ \E ip \in DOMAIN SweepFree(calls, j - 1) : ip \notin DOMAIN rateLimitMap

\* C27: when the stream of an analyze call has ended, after a done frame,
\* after an error frame or with neither, the stage of the status is complete
\* or error, and it is error when an error frame was read.
C27_TerminalStatus ==
    [][(analyzing # Null /\ analyzing' = Null) =>
           /\ status' \in {"complete", "error"}
           /\ analyzing[1].pc = "failed" => status' = "error"]_vars

\* The fields of the result that the metadata frame carries.
DeterministicFields == {"metadata", "fileTree", "fileStats", "branch", "availableBranches"}

\* C28: once the done frame has been handled, the result shown and the
\* result cached by it hold the metadata, fileTree, fileStats, branch and
\* availableBranches of the metadata frame, whatever the narrative text
\* contains.
C28_DeterministicFieldsKept ==
    DoneHandled =>
        LET currentResult == analyzing[1].currentResult
        IN  /\ \A field \in DeterministicFields : result[1][field] = currentResult[field]
            /\ \A key \in DOMAIN cache :
                   (key[1] = analyzing[1].repoFullName /\ cache[key].timestamp = now) =>
                       \A field \in DeterministicFields :
                           cache[key].data[field] = currentResult[field]

\* Two calls were started, the second before the first had returned, and
\* both have returned.
BothFinished == analyzing = Null /\ other = Null /\ Len(history) = 2

\* The record of the call started second: the one for branch dev.
LaterCall == history[CHOOSE i \in 1..2 : history[i].branch = Some("dev")]

\* C29: when two analyze calls overlapped and both have returned, the status
\* and the result are those of the call started second: the stage and the
\* result that call returned with, the result being of its branch.
C29_LaterCallWins ==
    BothFinished =>
        /\ status = LaterCall.stage
        /\ result = LaterCall.result
        /\ result # Null => Member(result[1], "branch") = Some("dev")

\* text.split("\n")
RECURSIVE Lines(_)
Lines(text) ==
    IF \A i \in 1..Len(text) : text[i] # "\n" THEN <<text>>
    ELSE LET i == CHOOSE k \in 1..Len(text) :
                      text[k] = "\n" /\ \A j \in 1..(k - 1) : text[j] # "\n"
         IN  <<SubSeq(text, 1, i - 1)>> \o Lines(SubSeq(text, i + 1, Len(text)))

\* The text of a line from position i up to the first character of stops.
UpTo(line, i, stops) ==
    LET ends == { k \in i..Len(line) : line[k] \in stops }
    IN  IF ends = {} THEN SubSeq(line, i, Len(line))
        ELSE SubSeq(line, i, (CHOOSE k \in ends : \A j \in ends : k <= j) - 1)

\* The identifier a node line declares, after its indentation.
NodeIdentifier(line) == UpTo(line, 5, {"[", "(", "{"})

\* The identifiers an edge line connects.
IsEdgeLine(line) == Contains(line, <<" ", "-", "-", ">">>)
EdgeFrom(line) == UpTo(line, 5, {" "})
EdgeTo(line) ==
    LET spaces == { k \in 1..Len(line) : line[k] = " " }
    IN  SubSeq(line, (CHOOSE k \in spaces : \A j \in spaces : j <= k) + 1, Len(line))

\* The nodes a flowchart generator was given, and the pairs of ids its edges
\* or connections name.
DiagramNodes == IF fn = "generateDataFlowDiagram" THEN input[1].nodes ELSE input[1]
RawEdges ==
    IF fn = "generateDataFlowDiagram"
    THEN { <<input[1].edges[k].from, input[1].edges[k].to>> : k \in 1..Len(input[1].edges) }
    ELSE UNION { { <<input[1][i].id, input[1][i].connections[k]>> :
                       k \in 1..Len(input[1][i].connections) } : i \in 1..Len(input[1]) }

\* C30: in the diagram generated from nodes and edges, or from components,
\* nodes with distinct ids are declared under distinct identifiers, and
\* every edge line connects the identifiers of the two declared nodes that
\* the ids of one edge of the input name; an edge with an end that is no
\* node's id has no line.
C30_DistinctIdentifiers ==
    (fn \in {"generateDataFlowDiagram", "generateArchitectureDiagram"}
         /\ out1 # Null /\ DiagramNodes # <<>>) =>
        LET nodes == DiagramNodes
            lines == Lines(out1[1].code)
            identifier(i) == NodeIdentifier(lines[i + 1])
        IN  /\ \A i, j \in 1..Len(nodes) :
                   nodes[i].id # nodes[j].id => identifier(i) # identifier(j)
            /\ \A k \in 1..Len(lines) :
                   IsEdgeLine(lines[k]) =>
                       \E e \in RawEdges : \E i, j \in 1..Len(nodes) :
                           /\ nodes[i].id = e[1] /\ nodes[j].id = e[2]
                           /\ EdgeFrom(lines[k]) = identifier(i)
                           /\ EdgeTo(lines[k]) = identifier(j)

====
